---- MODULE Spec2Model ----
(***************************************************************************)
(* A model of db-backuper: the backup orchestration of cmd/main.go and of  *)
(* the Lambda handler, and the two storage backends (internal/storage,     *)
(* internal/s3) with their key layout and retention sweep.                 *)
(*                                                                         *)
(* Strings are sequences of one-character strings, so that splitting,      *)
(* joining, formatting and parsing are computed as the code computes them. *)
(* Time is counted in hours: an instant is a number of hours on the UTC    *)
(* axis, a wall clock is a number of hours in the process's local zone.    *)
(***************************************************************************)
EXTENDS Integers, Sequences, FiniteSets, TLC

VARIABLES
    cfg,          \* the loaded configuration (config.Config)
    mode,         \* entry path: "once" (-once), "cron" (scheduled), "lambda"
    mainPc,       \* position of main / of the Lambda handler
    testIdx,      \* index of the next database of the pre-flight loop
    preflight,    \* pre-flight tests made ("failed": the test that failed) and
                  \* not yet followed by a run
    nextRun,      \* number of the next run of performBackup to start
    run,          \* run number -> the locals of that performBackup call
    responses,    \* LambdaResponse status codes returned so far
    objects,      \* keys / file paths present in the storage backend
    clock,        \* local wall clock of the process, in hours
    utcOffset,    \* offset of the local zone from UTC, in hours
    probe         \* inputs and results of the storage operations under study

vars == <<cfg, mode, mainPc, testIdx, preflight, nextRun, run, responses,
          objects, clock, utcOffset, probe>>

-----------------------------------------------------------------------------
(* Bounds of the model *)

MaxDatabases == 2
MaxRuns == 2
MaxRetention == 2

-----------------------------------------------------------------------------
(* Strings *)

Digits == <<"0", "1", "2", "3", "4", "5", "6", "7", "8", "9">>

IsDigit(c) == \E k \in 1..10 : Digits[k] = c

DigitVal(c) == (CHOOSE k \in 1..10 : Digits[k] = c) - 1

\* fmt "%02d"
TwoDigits(n) == <<Digits[(n \div 10) + 1], Digits[(n % 10) + 1]>>

\* strings.Split(s, sep) for a one-character separator: the pieces between the
\* occurrences of sep (one piece more than there are occurrences)
Split(s, sep) ==
    LET at == {k \in 1..Len(s) : s[k] = sep}
        cut == [j \in 0..(Cardinality(at) + 1) |->
                   IF j = 0 THEN 0
                   ELSE IF j = Cardinality(at) + 1 THEN Len(s) + 1
                   ELSE CHOOSE k \in at : Cardinality({q \in at : q < k}) = j - 1]
    IN  [j \in 1..(Cardinality(at) + 1) |-> SubSeq(s, cut[j - 1] + 1, cut[j] - 1)]

RECURSIVE JoinWith(_, _)
\* strings.Join(parts, sep)
JoinWith(parts, sep) ==
    IF parts = <<>> THEN <<>>
    ELSE IF Len(parts) = 1 THEN parts[1]
    ELSE parts[1] \o <<sep>> \o JoinWith(Tail(parts), sep)

RECURSIVE CleanAcc(_, _, _)
CleanAcc(segs, rooted, stack) ==
    IF segs = <<>> THEN stack
    ELSE LET h == Head(segs)
             t == Tail(segs)
         IN  IF h = <<>> \/ h = <<".">> THEN CleanAcc(t, rooted, stack)
             ELSE IF h = <<".", ".">>
                  THEN IF stack # <<>> /\ stack[Len(stack)] # <<".", ".">>
                       THEN CleanAcc(t, rooted, SubSeq(stack, 1, Len(stack) - 1))
                       ELSE IF rooted THEN CleanAcc(t, rooted, stack)
                       ELSE CleanAcc(t, rooted, Append(stack, h))
             ELSE CleanAcc(t, rooted, Append(stack, h))

\* filepath.Clean
Clean(path) ==
    LET rooted == path # <<>> /\ path[1] = "/"
        body == JoinWith(CleanAcc(Split(path, "/"), rooted, <<>>), "/")
    IN  IF rooted THEN <<"/">> \o body
        ELSE IF body = <<>> THEN <<".">> ELSE body

\* filepath.Join: empty elements are ignored, the result is cleaned
FilepathJoin(elems) ==
    LET kept == SelectSeq(elems, LAMBDA e : e # <<>>)
    IN  IF kept = <<>> THEN <<>> ELSE Clean(JoinWith(kept, "/"))

RECURSIVE StripTrailingSlashes(_)
StripTrailingSlashes(p) ==
    IF Len(p) > 0 /\ p[Len(p)] = "/"
    THEN StripTrailingSlashes(SubSeq(p, 1, Len(p) - 1))
    ELSE p

\* filepath.Base
Base(path) ==
    IF path = <<>> THEN <<".">>
    ELSE LET p == StripTrailingSlashes(path)
             segs == Split(p, "/")
         IN  IF p = <<>> THEN <<"/">> ELSE segs[Len(segs)]

\* strings.HasPrefix
HasPrefix(s, p) == Len(s) >= Len(p) /\ SubSeq(s, 1, Len(p)) = p

-----------------------------------------------------------------------------
(* Dates.  Day 1 is 2024-01-01; the calendar of the model is the leap year *)
(* 2024, other years are ordered before and after it.                      *)

DaysInMonth == <<31, 29, 31, 30, 31, 30, 31, 31, 30, 31, 30, 31>>

RECURSIVE SumTo(_, _)
SumTo(q, m) == IF m = 0 THEN 0 ELSE q[m] + SumTo(q, m - 1)

\* days of the year before the first of month m
DaysBeforeMonth == [m \in 1..12 |-> SumTo(DaysInMonth, m - 1)]

DaysBefore(m) == DaysBeforeMonth[m]

MonthOf(d) == CHOOSE m \in 1..12 : DaysBefore(m) < d /\ d <= DaysBefore(m) + DaysInMonth[m]

\* time.Time.Format("2006-01-02") of a day of 2024
FormatDate(d) ==
    <<"2", "0", "2", "4", "-">> \o TwoDigits(MonthOf(d)) \o <<"-">>
        \o TwoDigits(d - DaysBefore(MonthOf(d)))

\* time.Parse("2006-01-02", s) returns no error
ParseDateOk(s) ==
    /\ Len(s) = 10
    /\ s[5] = "-" /\ s[8] = "-"
    /\ \A k \in {1, 2, 3, 4, 6, 7, 9, 10} : IsDigit(s[k])
    /\ LET m == 10 * DigitVal(s[6]) + DigitVal(s[7])
           d == 10 * DigitVal(s[9]) + DigitVal(s[10])
       IN  m \in 1..12 /\ d >= 1 /\ d <= DaysInMonth[m]

\* time.Parse("2006-01-02", s): the day number of a string Parse accepts
ParseDate(s) ==
    LET y == 1000 * DigitVal(s[1]) + 100 * DigitVal(s[2])
               + 10 * DigitVal(s[3]) + DigitVal(s[4])
        m == 10 * DigitVal(s[6]) + DigitVal(s[7])
        d == 10 * DigitVal(s[9]) + DigitVal(s[10])
    IN  (y - 2024) * 366 + DaysBefore(m) + d

\* the instant of 00:00 UTC of a day: what time.Parse returns for a date
DateInstant(d) == d * 24

\* time.Now() as an instant
NowInstant(wall, offset) == wall - offset

\* time.Now().Format("2006-01-02"): the local calendar day
Today(wall) == wall \div 24

\* time.Now().Format("2006-01-02_15-04-05")
FormatTimestamp(wall) ==
    FormatDate(wall \div 24) \o <<"_">> \o TwoDigits(wall % 24)
        \o <<"-", "0", "0", "-", "0", "0">>

\* time.Time.Before
Before(a, b) == a < b

-----------------------------------------------------------------------------
(* The dump producer (internal/backup). The package is not part of the     *)
(* sources at hand: entry i of postgresBackups dumps cfg.Databases[i], and *)
(* the artifact is named as the comment in performBackup gives the format. *)

\* the directory the dump is written to; only the base name is ever used
ScratchDir == <<"/", "t", "m", "p">>

\* the artifact's file name: database-name_YYYY-MM-DD_HH-MM-SS.sql
BackupFileName(name, wall) ==
    name \o <<"_">> \o FormatTimestamp(wall) \o <<".", "s", "q", "l">>

\* PostgresBackup.CreateBackup: the path of the artifact it writes
CreateBackupPath(name, wall) == ScratchDir \o <<"/">> \o BackupFileName(name, wall)

\* performBackup: databaseName := strings.Split(filepath.Base(backupPath), "_")[0]
DatabaseNameOf(backupPath) == Split(Base(backupPath), "_")[1]

-----------------------------------------------------------------------------
(* S3Manager (internal/s3/s3.go) *)

\* S3Manager.UploadBackup: the key of the uploaded object
UploadKey(localFilePath, backupPrefix, databaseName, wall) ==
    LET timestamp == FormatTimestamp(wall)
        filename == Base(localFilePath)
    IN  backupPrefix \o <<"/">> \o databaseName \o <<"/">>
            \o SubSeq(timestamp, 1, 10) \o <<"/">> \o filename

\* cutoffDate := time.Now().AddDate(0, 0, -retentionDays), as an instant
CutoffInstant(wall, offset, retentionDays) ==
    NowInstant(wall - 24 * retentionDays, offset)

\* S3Manager.DeleteOldBackups: the keys appended to objectsToDelete
S3ObjectsToDelete(keys, backupPrefix, retentionDays, wall, offset) ==
    LET cutoffDate == CutoffInstant(wall, offset, retentionDays)
        listed == {k \in keys : HasPrefix(k, backupPrefix \o <<"/">>)}
    IN  {k \in listed :
            LET keyParts == Split(k, "/")
            IN  /\ Len(keyParts) >= 3
                /\ ParseDateOk(keyParts[3])
                /\ Before(DateInstant(ParseDate(keyParts[3])), cutoffDate)}

-----------------------------------------------------------------------------
(* LocalStorage (internal/storage/local.go) *)

\* the artifact is stored under a name of the storage's own
SavePathRenamed(root, localFilePath, backupPrefix, databaseName, wall) ==
    LET dateDir == FormatDate(Today(wall))
        backupDir == FilepathJoin(<<root, backupPrefix, databaseName, dateDir>>)
    IN  FilepathJoin(<<backupDir, <<"b", ".", "s", "q", "l">> >>)

\* LocalStorage.SaveBackup: finalBackupPath
SavePath(root, localFilePath, backupPrefix, databaseName, wall) ==
    LET filename == Base(localFilePath)
        dateDir == FormatDate(Today(wall))
        backupDir == FilepathJoin(<<root, backupPrefix, databaseName, dateDir>>)
    IN  FilepathJoin(<<backupDir, filename>>)

\* the path of f below directory dir, as its list of elements (<<>> if f is not below dir)
Below(f, dir) ==
    LET d == IF dir = <<"/">> THEN dir ELSE dir \o <<"/">>
    IN  IF HasPrefix(f, d) /\ Len(f) > Len(d)
        THEN Split(SubSeq(f, Len(d) + 1, Len(f)), "/")
        ELSE <<>>

\* strings.Count(s, c)
Count(s, c) == Cardinality({k \in 1..Len(s) : s[k] = c})

\* LocalStorage.DeleteOldBackups: the files below the directories it removes
LocalFilesToDelete(files, root, backupPrefix, retentionDays, wall, offset) ==
    LET cutoffDate == CutoffInstant(wall, offset, retentionDays)
        backupBaseDir == FilepathJoin(<<root, backupPrefix>>)
    IN  {f \in files :
            LET rel == Below(f, backupBaseDir)
            IN  \* rel[1] is a database directory, rel[2] a date directory
                /\ Len(rel) >= 3
                /\ Len(rel[2]) = 10 /\ Count(rel[2], "-") = 2
                /\ ParseDateOk(rel[2])
                /\ Before(DateInstant(ParseDate(rel[2])), cutoffDate)}

-----------------------------------------------------------------------------
(* Configuration *)

\* database names a configuration may list (DatabaseConfig.Database)
KnownDatabases ==
    << <<"a">>, <<"a", "_", "b">>, <<"a", "_", "c">>, <<"_", "d">> >>

\* LocalConfig.Path
LocalRoot == <<"/", "r">>

\* Config.IsLocalStorage / Config.IsAWSStorage decide the storage manager of main
StorageManager(c) ==
    IF c.Local # <<>> THEN "local"
    ELSE IF c.AWS THEN "s3"
    ELSE "none"

\* Config.ValidateForBackup
ValidateForBackup(c) ==
    /\ Len(c.Databases) > 0
    /\ \A k \in 1..Len(c.Databases) : c.Databases[k] # <<>>
    /\ (c.Local # <<>>) # c.AWS

\* the configurations of the orchestration runs: n databases, one backend
RunConfigs ==
    {c \in [Databases : {SubSeq(KnownDatabases, 1, n) : n \in 1..MaxDatabases},
            Local : {<<>>, LocalRoot},
            AWS : BOOLEAN,
            BackupPrefix : {<<"p">>},
            RetentionDays : {1}] : ValidateForBackup(c)}

NumDatabases == Len(cfg.Databases)

-----------------------------------------------------------------------------
(* One call of performBackup / performLambdaBackup: its locals *)

IdleRun ==
    [pc |-> "idle", i |-> 1,
     successfulBackups |-> 0, failedBackups |-> 0,
     backupPath |-> <<>>, saveErr |-> FALSE, result |-> "none",
     \* history of the call, written where the code calls out
     testPhase |-> <<>>,    \* pre-flight tests made for this run
     attempts |-> <<>>,     \* databases CreateBackup was called for, in order
     failures |-> 0,        \* CreateBackup / UploadBackup / SaveBackup calls that failed
     saves |-> 0,           \* UploadBackup / SaveBackup calls that succeeded
     sweeps |-> 0,          \* calls of DeleteOldBackups
     sweptAfter |-> 0]      \* number of databases finished when the sweep was called

Runs == 1..MaxRuns

\* entries of the pre-flight history
StorageTest == [test |-> "storage", db |-> 0]
DatabaseTest(k) == [test |-> "database", db |-> k]
FailedTest == [test |-> "failed", db |-> 0]

\* the process (or the Lambda invocation) that executes the runs is alive
Alive == mainPc \in {"runOnce", "serving", "lambdaRun"}

\* (mutant) the sweep is skipped when no database was backed up
NextDatabaseSkipSweep(me) ==
    IF me.i < NumDatabases
    THEN [me EXCEPT !.i = @ + 1, !.pc = "create"]
    ELSE [me EXCEPT !.i = @ + 1,
                    !.pc = IF me.successfulBackups = 0 THEN "return" ELSE "sweep"]

\* (mutant) a failed dump leaves the loop (break) instead of continuing
NextDatabaseBreak(me) ==
    IF me.i < NumDatabases /\ me.pc # "create"
    THEN [me EXCEPT !.i = @ + 1, !.pc = "create"]
    ELSE [me EXCEPT !.i = @ + 1, !.pc = "sweep"]

\* the for-range loop of performBackup moves to the next database or leaves
NextDatabase(me) ==
    IF me.i < NumDatabases
    THEN [me EXCEPT !.i = @ + 1, !.pc = "create"]
    ELSE [me EXCEPT !.i = @ + 1, !.pc = "sweep"]

\* the trace of the calls a run makes, kept only where a trace was started
Note(p, events) ==
    IF p.op = "trace" THEN [p EXCEPT !.log = @ \o events] ELSE p

\* the trace ends with the invocation
Fresh(p) == IF p.op = "trace" THEN [p EXCEPT !.log = <<>>] ELSE p

Event(ev, db, ok) == [ev |-> ev, db |-> db, ok |-> ok]

StartRun(r, tests) ==
    run' = [run EXCEPT ![r] = [IdleRun EXCEPT !.pc = "create", !.testPhase = tests]]

-----------------------------------------------------------------------------
(* main of cmd/main.go: pre-flight tests, then one run or the cron schedule *)

\* (mutant) main goes on to the databases without testing the storage
TestStorageConnectionSkipped ==
    /\ mainPc = "testStorage"
    /\ mainPc' = "testDatabases"
    /\ UNCHANGED <<cfg, mode, testIdx, preflight, nextRun, run, responses, objects,
                   clock, utcOffset, probe>>

\* testConnections: the storage manager's TestConnection
TestStorageConnection ==
    /\ mainPc = "testStorage"
    /\ \E ok \in BOOLEAN :
        IF ok /\ StorageManager(cfg) \in {"s3", "local"}
        THEN /\ mainPc' = "testDatabases"
             /\ preflight' = Append(preflight, StorageTest)
        ELSE /\ mainPc' = "fatal"
             /\ preflight' = Append(preflight, FailedTest)
    /\ UNCHANGED <<cfg, mode, testIdx, nextRun, run, responses, objects, clock,
                   utcOffset, probe>>

\* (mutant) a failed database test is logged and the loop goes on
TestDatabaseConnectionContinues ==
    /\ mainPc = "testDatabases"
    /\ \E ok \in BOOLEAN :
        /\ preflight' = Append(preflight, IF ok THEN DatabaseTest(testIdx) ELSE FailedTest)
        /\ testIdx' = testIdx + 1
        /\ mainPc' = IF testIdx < NumDatabases THEN "testDatabases"
                     ELSE IF mode = "once" THEN "startOnce" ELSE "serving"
    /\ UNCHANGED <<cfg, mode, nextRun, run, responses, objects, clock, utcOffset,
                   probe>>

\* testConnections: CreateBackup and CleanupBackup of the next database
TestDatabaseConnection ==
    /\ mainPc = "testDatabases"
    /\ \E ok \in BOOLEAN, cleanupOk \in BOOLEAN :
        IF ok
        THEN /\ preflight' = Append(preflight, DatabaseTest(testIdx))
             /\ testIdx' = testIdx + 1
             /\ mainPc' = IF testIdx < NumDatabases THEN "testDatabases"
                          ELSE IF mode = "once" THEN "startOnce" ELSE "serving"
             /\ probe' = Note(probe, <<Event("test dump", testIdx, TRUE),
                                       Event("test cleanup", testIdx, cleanupOk)>>)
        ELSE /\ mainPc' = "fatal"
             /\ preflight' = Append(preflight, FailedTest)
             /\ UNCHANGED <<testIdx, probe>>
    /\ UNCHANGED <<cfg, mode, nextRun, run, responses, objects, clock, utcOffset>>

\* main, -once: performBackup is called
RunOnce ==
    /\ mainPc = "startOnce"
    /\ StartRun(nextRun, preflight)
    /\ preflight' = <<>>
    /\ nextRun' = nextRun + 1
    /\ mainPc' = "runOnce"
    /\ UNCHANGED <<cfg, mode, testIdx, responses, objects, clock, utcOffset, probe>>

\* main, -once: performBackup has returned; Fatalf on an error
ExitOnce ==
    /\ mainPc = "runOnce"
    /\ run[1].pc = "done"
    /\ mainPc' = IF run[1].result = "error" THEN "fatal" ELSE "exit"
    /\ UNCHANGED <<cfg, mode, testIdx, preflight, nextRun, run, responses, objects,
                   clock, utcOffset, probe>>

\* the schedule skips a trigger while an earlier run is in progress
CronTriggerSkipIfRunning ==
    /\ mainPc = "serving"
    /\ nextRun <= MaxRuns
    /\ \A r \in Runs : run[r].pc \in {"idle", "done"}
    /\ StartRun(nextRun, preflight)
    /\ preflight' = <<>>
    /\ nextRun' = nextRun + 1
    /\ UNCHANGED <<cfg, mode, mainPc, testIdx, responses, objects, clock, utcOffset,
                   probe>>

\* the cron schedule fires: the job calls performBackup in a goroutine of its own
CronTrigger ==
    /\ mainPc = "serving"
    /\ nextRun <= MaxRuns
    /\ StartRun(nextRun, preflight)
    /\ preflight' = <<>>
    /\ nextRun' = nextRun + 1
    /\ UNCHANGED <<cfg, mode, mainPc, testIdx, responses, objects, clock, utcOffset,
                   probe>>

-----------------------------------------------------------------------------
(* Handler / handleBackup of the Lambda function *)

\* Handler is invoked; handleBackup creates the S3 manager
LambdaInvoke ==
    /\ mainPc = "lambdaIdle"
    /\ nextRun <= MaxRuns
    /\ \E ok \in BOOLEAN :
        IF ok
        THEN /\ mainPc' = "lambdaTest"
             /\ testIdx' = 1
             /\ preflight' = <<>>
             /\ UNCHANGED <<responses, nextRun>>
        ELSE /\ responses' = Append(responses, 500)
             /\ nextRun' = nextRun + 1
             /\ UNCHANGED <<mainPc, testIdx, preflight>>
    /\ UNCHANGED <<cfg, mode, run, objects, clock, utcOffset, probe>>

\* handleBackup: TestConnection of the next database; after the last, performLambdaBackup
LambdaTestConnection ==
    /\ mainPc = "lambdaTest"
    /\ \E ok \in BOOLEAN :
        IF ok
        THEN /\ preflight' = Append(preflight, DatabaseTest(testIdx))
             /\ testIdx' = testIdx + 1
             /\ IF testIdx < NumDatabases
                THEN UNCHANGED <<mainPc, run, nextRun>>
                ELSE /\ mainPc' = "lambdaRun"
                     /\ StartRun(nextRun, Append(preflight, DatabaseTest(testIdx)))
                     /\ nextRun' = nextRun + 1
             /\ UNCHANGED responses
        ELSE /\ responses' = Append(responses, 500)
             /\ mainPc' = "lambdaIdle"
             /\ nextRun' = nextRun + 1
             /\ preflight' = Append(preflight, FailedTest)
             /\ UNCHANGED <<testIdx, run>>
    /\ UNCHANGED <<cfg, mode, objects, clock, utcOffset, probe>>

\* handleBackup: performLambdaBackup has returned; the response is built
LambdaRespond ==
    /\ mainPc = "lambdaRun"
    /\ run[nextRun - 1].pc = "done"
    /\ responses' = Append(responses,
                           IF run[nextRun - 1].result = "error" THEN 500 ELSE 200)
    /\ mainPc' = "lambdaIdle"
    /\ probe' = Fresh(probe)
    /\ UNCHANGED <<cfg, mode, testIdx, preflight, nextRun, run, objects, clock,
                   utcOffset>>

-----------------------------------------------------------------------------
(* performBackup (cmd/main.go) and performLambdaBackup (Lambda): the steps *)

\* postgresBackup.CreateBackup() for database i; on an error failedBackups++, continue
CreateBackup(r) ==
    /\ Alive
    /\ run[r].pc = "create"
    /\ \E ok \in BOOLEAN :
        LET me == [run[r] EXCEPT !.attempts = Append(@, run[r].i)]
        IN  /\ probe' = Note(probe, <<Event("create", me.i, ok)>>)
            /\ IF ok
               THEN run' = [run EXCEPT ![r] =
                               [me EXCEPT !.backupPath =
                                              CreateBackupPath(cfg.Databases[me.i], clock),
                                          !.pc = "save"]]
               ELSE run' = [run EXCEPT ![r] =
                               NextDatabase([me EXCEPT !.failedBackups = @ + 1,
                                                       !.failures = @ + 1])]
    /\ UNCHANGED <<cfg, mode, mainPc, testIdx, preflight, nextRun, responses, objects,
                   clock, utcOffset>>

\* the key or path the configured storage manager saves the artifact under
Destination(c, backupPath, wall) ==
    IF StorageManager(c) = "s3"
    THEN UploadKey(backupPath, c.BackupPrefix, DatabaseNameOf(backupPath), wall)
    ELSE SavePath(c.Local, backupPath, c.BackupPrefix, DatabaseNameOf(backupPath), wall)

\* sm.UploadBackup / sm.SaveBackup of the artifact; unknown manager: failedBackups++.
\* A failed SaveBackup has created the destination file when the copy into it failed
SaveBackup(r) ==
    /\ Alive
    /\ run[r].pc = "save"
    /\ LET me == run[r]
           dest == Destination(cfg, me.backupPath, clock)
       IN  IF StorageManager(cfg) = "none"
           THEN /\ run' = [run EXCEPT ![r] =
                              NextDatabase([me EXCEPT !.failedBackups = @ + 1])]
                /\ probe' = Note(probe, <<Event("unknown manager", me.i, FALSE)>>)
                /\ UNCHANGED objects
           ELSE \E ok \in BOOLEAN :
                   /\ probe' = Note(probe, <<Event("save", me.i, ok)>>)
                   /\ IF ok
                      THEN /\ objects' = objects \cup {dest}
                           /\ run' = [run EXCEPT ![r] =
                                         [me EXCEPT !.saveErr = FALSE, !.saves = @ + 1,
                                                    !.pc = "cleanup"]]
                      ELSE /\ \E partial \in
                                      IF StorageManager(cfg) = "local" THEN BOOLEAN
                                      ELSE {FALSE} :
                                  \* copyFile leaves what it created at the destination
                                  objects' = IF partial THEN objects \cup {dest}
                                             ELSE objects
                           /\ run' = [run EXCEPT ![r] =
                                         [me EXCEPT !.saveErr = TRUE, !.failures = @ + 1,
                                                    !.pc = "cleanup"]]
    /\ UNCHANGED <<cfg, mode, mainPc, testIdx, preflight, nextRun, responses, clock,
                   utcOffset>>

\* (mutant) the failed transfer is counted as a success
CountedAsSuccess(me) == [me EXCEPT !.successfulBackups = @ + 1]

\* failedBackups++ after a failed transfer, successfulBackups++ after a successful one
Counted(me) ==
    IF me.saveErr
    THEN [me EXCEPT !.failedBackups = @ + 1]
    ELSE [me EXCEPT !.successfulBackups = @ + 1]

\* (mutant) after a failed transfer the artifact is left where it is
CleanupBackupOnSuccess(r) ==
    /\ Alive
    /\ run[r].pc = "cleanup"
    /\ \E ok \in BOOLEAN :
        LET me == [run[r] EXCEPT !.backupPath = IF run[r].saveErr THEN @ ELSE <<>>]
        IN  /\ run' = [run EXCEPT ![r] = NextDatabase(Counted(me))]
            /\ probe' = IF run[r].saveErr THEN probe
                        ELSE Note(probe, <<Event("cleanup", run[r].i, ok)>>)
    /\ UNCHANGED <<cfg, mode, mainPc, testIdx, preflight, nextRun, responses, objects,
                   clock, utcOffset>>

\* (mutant) a failed cleanup makes the database a failed one
CleanupBackupStrict(r) ==
    /\ Alive
    /\ run[r].pc = "cleanup"
    /\ \E ok \in BOOLEAN :
        LET me == [run[r] EXCEPT !.backupPath = <<>>,
                                 !.saveErr = run[r].saveErr \/ ~ok]
        IN  /\ run' = [run EXCEPT ![r] = NextDatabase(Counted(me))]
            /\ probe' = Note(probe, <<Event("cleanup", run[r].i, ok)>>)
    /\ UNCHANGED <<cfg, mode, mainPc, testIdx, preflight, nextRun, responses, objects,
                   clock, utcOffset>>

\* postgresBackup.CleanupBackup(backupPath), warn only; then the counter of the branch
CleanupBackup(r) ==
    /\ Alive
    /\ run[r].pc = "cleanup"
    /\ \E ok \in BOOLEAN :
        LET me == [run[r] EXCEPT !.backupPath = <<>>]
        IN  /\ run' = [run EXCEPT ![r] = NextDatabase(Counted(me))]
            /\ probe' = Note(probe, <<Event("cleanup", run[r].i, ok)>>)
    /\ UNCHANGED <<cfg, mode, mainPc, testIdx, preflight, nextRun, responses, objects,
                   clock, utcOffset>>

\* what DeleteOldBackups of the configured storage manager removes
Expired(c, stored, wall, offset) ==
    IF StorageManager(c) = "s3"
    THEN S3ObjectsToDelete(stored, c.BackupPrefix, c.RetentionDays, wall, offset)
    ELSE LocalFilesToDelete(stored, c.Local, c.BackupPrefix, c.RetentionDays, wall,
                            offset)

\* (mutant) a failed sweep is counted as a failed backup
DeleteOldBackupsCounted(r) ==
    /\ Alive
    /\ run[r].pc = "sweep"
    /\ LET me == [run[r] EXCEPT !.pc = "return"]
       IN  IF StorageManager(cfg) = "none"
           THEN /\ run' = [run EXCEPT ![r] = me]
                /\ UNCHANGED <<objects, probe>>
           ELSE \E ok \in BOOLEAN :
                     /\ run' = [run EXCEPT ![r] =
                                   [me EXCEPT !.sweeps = @ + 1,
                                              !.sweptAfter = Len(me.attempts),
                                              !.failedBackups =
                                                  IF ok THEN @ ELSE @ + 1]]
                     /\ objects' = IF ok
                                   THEN objects \ Expired(cfg, objects, clock, utcOffset)
                                   ELSE objects
                     /\ probe' = Note(probe, <<Event("sweep", 0, ok)>>)
    /\ UNCHANGED <<cfg, mode, mainPc, testIdx, preflight, nextRun, responses, clock,
                   utcOffset>>

\* sm.DeleteOldBackups(prefix, retentionDays), once, after the loop; an error is logged
DeleteOldBackups(r) ==
    /\ Alive
    /\ run[r].pc = "sweep"
    /\ LET me == [run[r] EXCEPT !.pc = "return"]
       IN  IF StorageManager(cfg) = "none"
           THEN /\ run' = [run EXCEPT ![r] = me]
                /\ UNCHANGED <<objects, probe>>
           ELSE /\ run' = [run EXCEPT ![r] =
                              [me EXCEPT !.sweeps = @ + 1,
                                         !.sweptAfter = Len(me.attempts)]]
                /\ \E ok \in BOOLEAN :
                     /\ objects' = IF ok
                                   THEN objects \ Expired(cfg, objects, clock, utcOffset)
                                   ELSE objects
                     /\ probe' = Note(probe, <<Event("sweep", 0, ok)>>)
    /\ UNCHANGED <<cfg, mode, mainPc, testIdx, preflight, nextRun, responses, clock,
                   utcOffset>>

\* (mutant) an error only when no database was backed up
RunResultAllFailed(me) == IF me.successfulBackups = 0 THEN "error" ELSE "nil"

\* if failedBackups > 0 { return fmt.Errorf(...) }; return nil
RunResult(me) == IF me.failedBackups > 0 THEN "error" ELSE "nil"

\* a failed run ends the process in every mode
ReturnFatal(r) ==
    /\ Alive
    /\ run[r].pc = "return"
    /\ LET me == run[r]
       IN  /\ run' = [run EXCEPT ![r] =
                         [me EXCEPT !.pc = "done", !.result = RunResult(me)]]
           /\ mainPc' = IF RunResult(me) = "error" /\ mode = "cron" THEN "fatal"
                        ELSE mainPc
    /\ UNCHANGED <<cfg, mode, testIdx, preflight, nextRun, responses, objects,
                   clock, utcOffset, probe>>

\* performBackup returns
Return(r) ==
    /\ Alive
    /\ run[r].pc = "return"
    /\ LET me == run[r]
       IN  run' = [run EXCEPT ![r] =
                      [me EXCEPT !.pc = "done", !.result = RunResult(me)]]
    /\ UNCHANGED <<cfg, mode, mainPc, testIdx, preflight, nextRun, responses, objects,
                   clock, utcOffset, probe>>

-----------------------------------------------------------------------------
(* The orchestration: every entry path, runs of the schedule may overlap *)

NoProbe == [op |-> "none"]

Init ==
    /\ cfg \in RunConfigs
    /\ mode \in {"once", "cron", "lambda"}
    /\ mode = "lambda" => StorageManager(cfg) = "s3"
    /\ mainPc = IF mode = "lambda" THEN "lambdaIdle" ELSE "testStorage"
    /\ testIdx = 1
    /\ preflight = <<>>
    /\ nextRun = 1
    /\ run = [r \in Runs |-> IdleRun]
    /\ responses = <<>>
    /\ objects = {}
    /\ clock = 24 * 10 + 12
    /\ utcOffset = 0
    /\ probe = NoProbe

Next ==
    \/ TestStorageConnection
    \/ TestDatabaseConnection
    \/ RunOnce
    \/ ExitOnce
    \/ CronTrigger
    \/ LambdaInvoke
    \/ LambdaTestConnection
    \/ LambdaRespond
    \/ \E r \in Runs : CreateBackup(r)
    \/ \E r \in Runs : SaveBackup(r)
    \/ \E r \in Runs : CleanupBackup(r)
    \/ \E r \in Runs : DeleteOldBackups(r)
    \/ \E r \in Runs : Return(r)

Spec == Init /\ [][Next]_vars

-----------------------------------------------------------------------------
(* Properties of the orchestration *)

Started(r) == run[r].pc # "idle"

LoopDone(r) == run[r].pc \in {"sweep", "return", "done"}

Finished(r) == run[r].pc = "done"

AllDatabases == [k \in 1..NumDatabases |-> k]

\* C1: when the loop of a run is over, successfulBackups is the number of
\* databases whose dump and transfer both succeeded, failedBackups is the number
\* whose dump or transfer failed, and the two add up to the number of databases.
C1_CountsMatchOutcomes ==
    \A r \in Runs :
        LoopDone(r) =>
            /\ run[r].successfulBackups = run[r].saves
            /\ run[r].failedBackups = run[r].failures
            /\ run[r].successfulBackups + run[r].failedBackups = NumDatabases

\* a finished run over several databases with failures and successes
C1_Witness ==
    \E r \in Runs :
        /\ Finished(r)
        /\ NumDatabases >= 2
        /\ run[r].failures >= 1
        /\ run[r].saves >= 1

\* C2: a run calls DeleteOldBackups exactly once, after the step of the last
\* database is over and never before, whatever the number of failed databases.
C2_SweepOnceAfterLoop ==
    \A r \in Runs :
        /\ run[r].pc \in {"idle", "create", "save", "cleanup", "sweep"}
               => run[r].sweeps = 0
        /\ run[r].pc \in {"return", "done"}
               => /\ run[r].sweeps = 1
                  /\ run[r].sweptAfter = NumDatabases

\* a finished run in which every database failed and the sweep was still called
C2_Witness ==
    \E r \in Runs :
        /\ Finished(r)
        /\ run[r].failedBackups = NumDatabases
        /\ run[r].sweeps = 1

\* C3: performBackup returns an error iff failedBackups > 0.
C3_ErrorIffFailures ==
    \A r \in Runs :
        Finished(r) => (run[r].result = "error" <=> run[r].failedBackups > 0)

\* a partly successful run: the sweep ran and the run is reported as failed
C3_Witness ==
    \E r \in Runs :
        /\ Finished(r)
        /\ run[r].successfulBackups >= 1
        /\ run[r].failedBackups >= 1
        /\ run[r].sweeps = 1
        /\ run[r].result = "error"

\* C4: one CreateBackup attempt per configured database, in configuration
\* order, one at a time; a failed dump does not prevent the later attempts.
C4_EveryDatabaseAttemptedInOrder ==
    \A r \in Runs :
        /\ Len(run[r].attempts) <= NumDatabases
        /\ \A k \in 1..Len(run[r].attempts) : run[r].attempts[k] = k
        /\ run[r].pc \in {"save", "cleanup"} => Len(run[r].attempts) = run[r].i
        /\ run[r].pc = "create" => Len(run[r].attempts) = run[r].i - 1
        /\ LoopDone(r) => run[r].attempts = AllDatabases

\* the dump of database 1 failed (no transfer was tried so far) and database 2
\* has been dumped
C4_Witness ==
    \E r \in Runs :
        /\ run[r].pc = "save"
        /\ run[r].i = 2
        /\ run[r].failedBackups = 1
        /\ run[r].saves = 0
        /\ ~run[r].saveErr
        /\ run[r].attempts = <<1, 2>>

\* C5: after a failed pre-flight test nothing else is tested and the run that
\* would have followed never starts: no dump, no transfer, no sweep.
C5_FailedTestAborts ==
    (\E k \in 1..Len(preflight) : preflight[k] = FailedTest) =>
        /\ preflight[Len(preflight)] = FailedTest
        /\ \A k \in 1..(Len(preflight) - 1) : preflight[k] # FailedTest
        /\ IF mode = "lambda"
           THEN /\ mainPc = "lambdaIdle"
                /\ run[nextRun - 1] = IdleRun
           ELSE /\ mainPc = "fatal"
                /\ \A r \in Runs : run[r] = IdleRun
                /\ objects = {}

\* the test of database 1 of 2 failed in main: database 2 was not tested
C5_Witness ==
    /\ mode = "once"
    /\ NumDatabases = 2
    /\ preflight = <<StorageTest, FailedTest>>
    /\ mainPc = "fatal"

AllDatabaseTests == [k \in 1..NumDatabases |-> DatabaseTest(k)]

FullTestPhase == <<StorageTest>> \o AllDatabaseTests

\* C6 as stated: every run, on every entry path, follows a test phase of its own:
\* the storage TestConnection and one connection test per database.
C6_TestPhaseBeforeEveryRun ==
    \A r \in Runs : Started(r) => run[r].testPhase = FullTestPhase

\* C6 amended: main tests the storage and every database once, before the
\* one-shot run or the first scheduled run; later scheduled runs start without
\* any test; a Lambda invocation tests every database, never the storage.
C6_TestPhaseAsCoded ==
    \A r \in Runs :
        Started(r) =>
            IF mode = "lambda"
            THEN run[r].testPhase = AllDatabaseTests
            ELSE /\ run[1].testPhase = FullTestPhase
                 /\ r > 1 => run[r].testPhase = <<>>

\* a second scheduled run is in its loop; no test was made since the first
C6_Witness ==
    /\ mode = "cron"
    /\ run[2].pc = "save"
    /\ run[2].testPhase = <<>>
    /\ run[1].testPhase = FullTestPhase

\* C17: a one-shot invocation ends with a fatal result exactly when a database
\* failed; in scheduled mode a failed run is only logged, the process keeps
\* serving and the next trigger still starts a run
C17_FatalOnceLoggedWhenScheduled ==
    /\ (mode = "once" /\ Started(1) /\ mainPc \in {"fatal", "exit"}) =>
           /\ Finished(1)
           /\ (mainPc = "fatal") <=> (run[1].failedBackups > 0)
    /\ (mode = "cron" /\ \E r \in Runs : Finished(r) /\ run[r].result = "error") =>
           /\ mainPc = "serving"
           /\ (nextRun <= MaxRuns) => ENABLED CronTrigger

C17_Witness ==
    /\ mode = "cron"
    /\ Finished(1)
    /\ run[1].result = "error"
    /\ Started(2)
    /\ run[2].pc = "save"

\* a run of performBackup that has started and not returned
InProgress(r) == Started(r) /\ ~Finished(r)

\* C18: a trigger of the schedule starts a run whatever the earlier runs are doing;
\* a run in progress neither delays nor rejects it, so the steps of two runs
\* interleave
C18_RunsNotSerialised ==
    (mode = "cron" /\ mainPc = "serving" /\ nextRun <= MaxRuns
     /\ \E r \in Runs : InProgress(r)) =>
        ENABLED CronTrigger

\* the second run has dumped, saved and swept while the first is between its
\* dump and its transfer
C18_Witness ==
    /\ mode = "cron"
    /\ run[1].pc = "save"
    /\ run[1].i = 1
    /\ run[2].pc = "return"
    /\ run[2].sweeps = 1
    /\ run[2].saves > 0

-----------------------------------------------------------------------------
(* The storage backends on their own: artifacts are dumped, saved and swept *)
(* one after the other, as performBackup does without failures, over a     *)
(* wider range of names, prefixes, retention windows, clocks and zones.    *)

MaxSaves == 2
MaxTicks == 1

\* BackupConfig.BackupPrefix: set, left empty, or with a separator in it
Prefixes == {<<"p">>, <<>>, <<"p", "/", "q">>}

\* hours of the day at which the operations run, and zones of the process
Hours == {0, 12, 23}
UtcOffsets == {0 - 10, 0, 10}

\* the databases of a configuration, in its order: every name of its own, names
\* sharing their start, and one database listed twice
StoreDatabases ==
    {KnownDatabases,
     <<KnownDatabases[4], KnownDatabases[3], KnownDatabases[1], KnownDatabases[2]>>,
     <<KnownDatabases[1], KnownDatabases[1], KnownDatabases[2], KnownDatabases[4]>>}

StoreConfigs ==
    {c \in [Databases : StoreDatabases,
            Local : {<<>>, LocalRoot},
            AWS : BOOLEAN,
            BackupPrefix : Prefixes,
            RetentionDays : 1..MaxRetention] : ValidateForBackup(c)}

\* the record of an artifact written to the storage: its key, the local day it
\* was saved on, the configured database it is a dump of, the database folder
Written(c, name, dumpWall, saveWall) ==
    LET backupPath == CreateBackupPath(name, dumpWall)
    IN  [key |-> Destination(c, backupPath, saveWall),
         day |-> Today(saveWall),
         name |-> name,
         folder |-> DatabaseNameOf(backupPath)]

\* artifacts of the first database saved at noon of the days before the start
SeedDays == (10 - MaxRetention - 1)..9

Seeded(c) == {Written(c, KnownDatabases[1], 24 * d + 12, 24 * d + 12) : d \in SeedDays}

\* entries that are not backups: a date directory time.Parse rejects, one that is
\* no date at all, and a file directly in the database folder
StrayEntries ==
    {<< <<"a">>, <<"2", "0", "2", "4", "-", "1", "3", "-", "0", "1">>, <<"f">> >>,
     << <<"a">>, <<"x">>, <<"f">> >>,
     << <<"a">>, <<"f">> >>}

\* the key or path of an entry below the prefix in the configured storage
EntryAt(c, elems) ==
    IF StorageManager(c) = "s3"
    THEN c.BackupPrefix \o <<"/">> \o JoinWith(elems, "/")
    ELSE FilepathJoin(<<c.Local, c.BackupPrefix>> \o elems)

NoArtifact ==
    [name |-> <<>>, backupPath |-> <<>>, databaseName |-> <<>>,
     s3Key |-> <<>>, localPath |-> <<>>, savedAt |-> 0, content |-> 0, dest |-> <<>>]

StorageInit ==
    /\ cfg \in StoreConfigs
    /\ mode = "storage"
    /\ mainPc = "storage"
    /\ testIdx = 1
    /\ preflight = <<>>
    /\ nextRun = 1
    /\ run = [r \in Runs |-> IdleRun]
    /\ responses = <<>>
    /\ clock \in {24 * 10 + h : h \in Hours}
    /\ utcOffset \in UtcOffsets
    /\ \E strays \in {{}, StrayEntries} :
        /\ objects = {w.key : w \in Seeded(cfg)} \cup {EntryAt(cfg, e) : e \in strays}
        /\ probe = [op |-> "init", artifact |-> NoArtifact, before |-> {},
                    removedLocal |-> {}, removedS3 |-> {},
                    written |-> Seeded(cfg), saves |-> 0, ticks |-> 0,
                    contents |-> [k \in objects |-> 0]]

\* CreateBackup of the next configured database
DumpArtifact ==
    /\ probe.op \in {"init", "save", "sweep"}
    /\ probe.saves < MaxSaves
    /\ probe.saves < Len(cfg.Databases)
    /\ LET n == probe.saves + 1 IN
        probe' = [probe EXCEPT
                     !.op = "dump",
                     !.before = {},
                     !.removedLocal = {},
                     !.removedS3 = {},
                     !.artifact = [NoArtifact EXCEPT
                                      !.name = cfg.Databases[n],
                                      !.content = probe.saves + 1,
                                      !.backupPath =
                                          CreateBackupPath(cfg.Databases[n], clock)]]
    /\ UNCHANGED <<cfg, mode, mainPc, testIdx, preflight, nextRun, run, responses,
                   objects, clock, utcOffset>>

\* the hour before midnight passes between the dump and the transfer
Tick ==
    /\ probe.ticks < MaxTicks
    /\ probe.op = "dump"
    /\ clock % 24 = 23
    /\ clock' = clock + 1
    /\ probe' = [probe EXCEPT !.ticks = @ + 1]
    /\ UNCHANGED <<cfg, mode, mainPc, testIdx, preflight, nextRun, run, responses,
                   objects, utcOffset>>

\* copyFile / uploader.Upload: the destination holds the bytes of the artifact,
\* in place of what an entry of the same name held
Stored(contents, dest, content) ==
    [k \in (DOMAIN contents) \cup {dest} |-> IF k = dest THEN content ELSE contents[k]]

\* performBackup derives databaseName and saves the artifact with the configured
\* manager; the destination either manager computes for these inputs is recorded
SaveArtifact ==
    /\ probe.op = "dump"
    /\ LET a == probe.artifact
           databaseName == DatabaseNameOf(a.backupPath)
           dest == Destination(cfg, a.backupPath, clock)
       IN  /\ objects' = objects \cup {dest}
           /\ probe' = [probe EXCEPT
                           !.op = "save",
                           !.saves = @ + 1,
                           !.before = objects,
                           !.contents = Stored(@, dest, a.content),
                           !.written = @ \cup {[key |-> dest, day |-> Today(clock),
                                                name |-> a.name,
                                                folder |-> databaseName]},
                           !.artifact =
                               [a EXCEPT
                                   !.databaseName = databaseName,
                                   !.savedAt = clock,
                                   !.dest = dest,
                                   !.s3Key = UploadKey(a.backupPath, cfg.BackupPrefix,
                                                       databaseName, clock),
                                   !.localPath = SavePath(LocalRoot, a.backupPath,
                                                          cfg.BackupPrefix,
                                                          databaseName, clock)]]
    /\ UNCHANGED <<cfg, mode, mainPc, testIdx, preflight, nextRun, run, responses,
                   clock, utcOffset>>

\* the documented place of an artifact: backup-prefix/database/YYYY-MM-DD/file
Layout(c, w) ==
    c.BackupPrefix \o <<"/">> \o w.folder \o <<"/">> \o FormatDate(w.day)
        \o <<"/">> \o Base(w.key)

\* the stored artifacts LocalStorage.DeleteOldBackups removes when they are laid
\* out below LocalRoot
RemovedByLocal(c, stored, wall, offset) ==
    LET files == {LocalRoot \o <<"/">> \o Layout(c, w) : w \in stored}
        gone == LocalFilesToDelete(files, LocalRoot, c.BackupPrefix, c.RetentionDays,
                                   wall, offset)
    IN  {w \in stored : (LocalRoot \o <<"/">> \o Layout(c, w)) \in gone}

\* the stored artifacts S3Manager.DeleteOldBackups removes when they are the
\* objects of the bucket
RemovedByS3(c, stored, wall, offset) ==
    LET keys == {Layout(c, w) : w \in stored}
        gone == S3ObjectsToDelete(keys, c.BackupPrefix, c.RetentionDays, wall, offset)
    IN  {w \in stored : Layout(c, w) \in gone}

\* DeleteOldBackups(BackupPrefix, RetentionDays) of the configured manager succeeds;
\* what either manager removes from the same artifacts is recorded
Sweep ==
    /\ probe.op \in {"init", "save"}
    /\ objects' = objects \ Expired(cfg, objects, clock, utcOffset)
    /\ LET stored == {w \in probe.written : w.key \in objects}
       IN  probe' = [probe EXCEPT
                        !.op = "sweep", !.before = objects, !.artifact = NoArtifact,
                        !.contents = [k \in objects' |-> @[k]],
                        !.removedLocal = RemovedByLocal(cfg, stored, clock, utcOffset),
                        !.removedS3 = RemovedByS3(cfg, stored, clock, utcOffset)]
    /\ UNCHANGED <<cfg, mode, mainPc, testIdx, preflight, nextRun, run, responses,
                   clock, utcOffset>>

StorageNext == DumpArtifact \/ Tick \/ SaveArtifact \/ Sweep

StorageSpec == StorageInit /\ [][StorageNext]_vars

-----------------------------------------------------------------------------
(* Properties of the storage backends                                      *)

\* the layout the README documents: a one-segment prefix, and the artifact
\* filed under the database it is a dump of
Documented(w) == cfg.BackupPrefix = <<"p">> /\ w.folder = w.name

\* the artifacts in the storage when the last sweep started
SweptOver == {w \in probe.written : w.key \in probe.before /\ Documented(w)}

\* C7: after a sweep with retention R run at any time of a day, an artifact is
\* deleted exactly when its date is before today - R as calendar dates; an
\* artifact dated exactly today - R is retained
C7_ExclusiveBoundary ==
    probe.op = "sweep" =>
        \A w \in SweptOver :
            (w.key \notin objects) <=> (w.day < Today(clock) - cfg.RetentionDays)

\* C8: for every retention R >= 1, time of day and zone, an artifact saved under
\* today's date is not deleted by a sweep run at that moment, and with R = 1 an
\* artifact dated two days ago is deleted
C8_TodayRetainedInEveryZone ==
    probe.op = "sweep" =>
        \A w \in SweptOver :
            /\ w.day = Today(clock) => w.key \in objects
            /\ (cfg.RetentionDays = 1 /\ w.day = Today(clock) - 2) => w.key \notin objects

\* C9: the database folder an artifact is stored under is the configured name of
\* the database it is a dump of, so two databases never share a folder
C9_FolderIsConfiguredName ==
    \A w \in probe.written : w.folder = w.name

\* artifacts laid out as prefix/db/date/file with no empty element
LaidOut == {w \in probe.written : w.key \in probe.before /\ w.folder # <<>>}

\* C11: for every prefix, also one with a '/' in it, every set of artifacts laid
\* out as prefix/db/date/file, every retention and the same clock, the local and
\* the S3 manager remove the same artifacts
C11_SameRetentionDecisions ==
    (probe.op = "sweep" /\ cfg.BackupPrefix # <<>>) =>
        \A w \in LaidOut : (w \in probe.removedLocal) <=> (w \in probe.removedS3)

\* the entries in the storage at the last sweep that no backup wrote
Strays == probe.before \ {w.key : w \in probe.written}

\* C12: a sweep over a storage with entries whose date segment does not parse, or
\* whose path has not the expected shape, leaves those entries and still deletes
\* every expired artifact
C12_MalformedEntriesSkipped ==
    (probe.op = "sweep" /\ Strays # {} /\ cfg.BackupPrefix # <<>>) =>
        /\ Strays \subseteq objects
        /\ \A w \in LaidOut :
               w.day < Today(clock) - cfg.RetentionDays => w.key \notin objects

\* the path of the local manager below its root
RelativeToRoot(path) == SubSeq(path, Len(LocalRoot) + 2, Len(path))

\* C10: for the same inputs the local and the S3 manager compute the same relative
\* destination {prefix}/{databaseName}/{today}/{basename}, with today the date at
\* save time
C10_SameRelativeDestination ==
    probe.op = "save" =>
        LET a == probe.artifact
            expected == cfg.BackupPrefix \o <<"/">> \o a.databaseName \o <<"/">>
                        \o FormatDate(Today(a.savedAt)) \o <<"/">> \o Base(a.backupPath)
        IN  /\ a.s3Key = expected
            /\ RelativeToRoot(a.localPath) = expected

\* the entries of the storage listed under prefix/databaseName/
ListingUnder(stored, databaseName) ==
    {k \in stored : HasPrefix(k, EntryAt(cfg, <<databaseName>>) \o <<"/">>)}

\* the entries the last save added to the listing of its database folder
NewEntries ==
    ListingUnder(objects, probe.artifact.databaseName)
        \ ListingUnder(probe.before, probe.artifact.databaseName)

\* C19: after a successful save of an artifact under (prefix, db) the listing
\* under prefix/db/ has exactly one new entry, named as the artifact and holding
\* its content, with either backend
C19_ExactlyOneNewEntry ==
    probe.op = "save" =>
        /\ Cardinality(NewEntries) = 1
        /\ \A k \in NewEntries :
               /\ Base(k) = Base(probe.artifact.backupPath)
               /\ probe.contents[k] = probe.artifact.content

\* C19 as the code has it: the listing under prefix/db/ has the destination, named
\* as the artifact and holding its content; it is the one new entry unless an
\* entry of that name and date was there, which is overwritten; nothing else in
\* the storage changes
C19_SavedEntryListed ==
    probe.op = "save" =>
        LET a == probe.artifact
        IN  /\ a.dest \in ListingUnder(objects, a.databaseName)
            /\ Base(a.dest) = Base(a.backupPath)
            /\ probe.contents[a.dest] = a.content
            /\ objects = probe.before \cup {a.dest}
            /\ NewEntries = {a.dest} \ probe.before
            /\ \A k \in probe.before \ {a.dest} :
                   probe.contents[k] \in 0..(a.content - 1)

C19_Witness ==
    /\ probe.op = "save"
    /\ probe.artifact.name = <<"a", "_", "b">>
    /\ cfg.BackupPrefix = <<"p", "/", "q">>
    /\ NewEntries = {probe.artifact.dest}
    /\ probe.saves = 2

-----------------------------------------------------------------------------
(* S3Manager.DeleteOldBackups: the deletion of objectsToDelete in batches. *)
(* The objects to delete are numbered from 0; a call of DeleteObjects is   *)
(* recorded with the slice it was given and what it returned.              *)

MaxExpired == 2001

maxBatchSize == 1000

\* what a DeleteObjects call returns: every object deleted, some objects reported
\* in result.Errors, or an error of the call itself
BatchOutcomes == {"deleted", "errors", "failed"}

S3Config ==
    [Databases |-> <<KnownDatabases[1]>>, Local |-> <<>>, AWS |-> TRUE,
     BackupPrefix |-> <<"p">>, RetentionDays |-> 1]

BatchInit ==
    /\ cfg = S3Config
    /\ mode = "sweep"
    /\ mainPc = "sweep"
    /\ testIdx = 1
    /\ preflight = <<>>
    /\ nextRun = 1
    /\ run = [r \in Runs |-> IdleRun]
    /\ responses = <<>>
    /\ objects = {}
    /\ clock = 24 * 10 + 12
    /\ utcOffset = 0
    /\ \E n \in 0..MaxExpired :
        probe = [op |-> "list", n |-> n, i |-> 0, calls |-> <<>>, err |-> FALSE]

\* ListObjectsV2Pages: an error is returned; with nothing to delete nil is returned
ListObjects ==
    /\ probe.op = "list"
    /\ \E ok \in BOOLEAN :
        probe' = IF ~ok THEN [probe EXCEPT !.op = "returned", !.err = TRUE, !.n = 0]
                 ELSE IF probe.n = 0 THEN [probe EXCEPT !.op = "returned"]
                 ELSE [probe EXCEPT !.op = "delete"]
    /\ UNCHANGED <<cfg, mode, mainPc, testIdx, preflight, nextRun, run, responses,
                   objects, clock, utcOffset>>

\* a call that returns no error is followed by every later batch, whatever it reported
AfterBatchNeverAborts(p, end, outcome) ==
    [p EXCEPT !.calls = Append(@, [from |-> p.i, to |-> end, outcome |-> outcome]),
              !.i = p.i + maxBatchSize,
              !.op = IF p.i + maxBatchSize < p.n THEN "delete" ELSE "returned"]

\* the loop after DeleteObjects(batch): an error of the call is returned at once,
\* result.Errors are logged and the loop goes on
AfterBatch(p, end, outcome) ==
    IF outcome = "failed"
    THEN [p EXCEPT !.calls = Append(@, [from |-> p.i, to |-> end, outcome |-> outcome]),
                   !.op = "returned", !.err = TRUE]
    ELSE [p EXCEPT !.calls = Append(@, [from |-> p.i, to |-> end, outcome |-> outcome]),
                   !.i = p.i + maxBatchSize,
                   !.op = IF p.i + maxBatchSize < p.n THEN "delete" ELSE "returned"]

\* one iteration: batch := objectsToDelete[i:end], DeleteObjects(batch)
DeleteBatch ==
    /\ probe.op = "delete"
    /\ probe.i < probe.n
    /\ LET end == IF probe.i + maxBatchSize > probe.n THEN probe.n
                  ELSE probe.i + maxBatchSize
       IN  \E outcome \in BatchOutcomes : probe' = AfterBatch(probe, end, outcome)
    /\ UNCHANGED <<cfg, mode, mainPc, testIdx, preflight, nextRun, run, responses,
                   objects, clock, utcOffset>>

BatchNext == ListObjects \/ DeleteBatch

BatchSpec == BatchInit /\ [][BatchNext]_vars

\* the number of DeleteObjects calls object k was submitted in
Submissions(k) ==
    Cardinality({j \in 1..Len(probe.calls) :
                    probe.calls[j].from <= k /\ k < probe.calls[j].to})

\* C13: in a sweep whose listing succeeded every expired object is submitted in
\* exactly one DeleteObjects call of at most 1000 identifiers, whatever the
\* earlier batches reported
C13_EveryBatchAttempted ==
    probe.op = "returned" =>
        /\ \A k \in 0..(probe.n - 1) : Submissions(k) = 1
        /\ \A j \in 1..Len(probe.calls) :
               probe.calls[j].to - probe.calls[j].from <= maxBatchSize

\* C13 as the code has it: objects reported in result.Errors do not stop the
\* sweep; an error of a DeleteObjects call ends it with an error, and the objects
\* of the later batches are submitted in no call
C13_BatchesUntilCallFails ==
    probe.op = "returned" =>
        LET calls == probe.calls
            aborted == calls # <<>> /\ calls[Len(calls)].outcome = "failed"
            reach == IF calls = <<>> THEN 0 ELSE calls[Len(calls)].to
        IN  /\ \A j \in 1..Len(calls) :
                   /\ calls[j].to - calls[j].from <= maxBatchSize
                   /\ calls[j].from < calls[j].to
                   /\ calls[j].outcome = "failed" => j = Len(calls)
            /\ \A k \in 0..(probe.n - 1) :
                   Submissions(k) = IF k < reach THEN 1 ELSE 0
            /\ aborted => probe.err
            /\ ~aborted => reach = probe.n
            /\ (probe.err /\ ~aborted) => calls = <<>>

C13_Witness ==
    /\ probe.op = "returned"
    /\ Len(probe.calls) = 3
    /\ probe.calls[1].outcome = "errors"
    /\ probe.calls[2].outcome = "deleted"
    /\ probe.calls[3].outcome = "errors"
    /\ probe.calls[3].to = probe.n
    /\ ~probe.err

-----------------------------------------------------------------------------
(* PostgresImport.ImportBackup (internal/restore/postgres.go). The target  *)
(* database is seen through what the import can change: whether it exists, *)
(* whether it still holds its previous contents, how much of the dump has   *)
(* been applied, and whether other sessions are connected to it.            *)

MaxImports == 2

\* a target database with its previous contents, or none
TargetDatabases ==
    {[exists |-> TRUE, old |-> TRUE, applied |-> "none"],
     [exists |-> FALSE, old |-> FALSE, applied |-> "none"]}

ImportInit ==
    /\ cfg = S3Config
    /\ mode = "import"
    /\ mainPc = "import"
    /\ testIdx = 1
    /\ preflight = <<>>
    /\ nextRun = 1
    /\ run = [r \in Runs |-> IdleRun]
    /\ responses = <<>>
    /\ objects = {}
    /\ clock = 24 * 10 + 12
    /\ utcOffset = 0
    /\ \E file \in BOOLEAN, drop \in BOOLEAN, sessions \in BOOLEAN, db \in TargetDatabases :
        probe = [op |-> "stat", file |-> file, dropExisting |-> drop,
                 sessions |-> sessions /\ db.exists, db |-> db, target |-> db,
                 log |-> <<>>, err |-> "none", imports |-> 1, reachable |-> FALSE]

ImportFrame ==
    UNCHANGED <<cfg, mode, mainPc, testIdx, preflight, nextRun, run, responses,
                objects, clock, utcOffset>>

\* the import returns err
Failed(p, step, err) ==
    [p EXCEPT !.op = "returned", !.err = err, !.log = Append(@, step)]

\* os.Stat(BackupPath): "backup file does not exist"
StatBackupFile ==
    /\ probe.op = "stat"
    /\ probe' = IF probe.file
                THEN [probe EXCEPT !.op = "test", !.log = Append(@, "stat")]
                ELSE Failed(probe, "stat", "backup file does not exist")
    /\ ImportFrame

\* a failed connection test is passed over
ImportTestConnectionIgnored ==
    /\ probe.op = "test"
    /\ \E ok \in BOOLEAN :
        probe' = [probe EXCEPT !.op = IF probe.dropExisting THEN "open" ELSE "restore",
                               !.log = Append(@, "test")]
    /\ ImportFrame

\* pi.testConnection(): a ping of the target database, which fails when the server
\* does not answer (ok) and when it has no database of that name
ImportTestConnection ==
    /\ probe.op = "test"
    /\ \E ok \in BOOLEAN :
        probe' = IF ok /\ probe.db.exists
                 THEN [probe EXCEPT !.op = IF probe.dropExisting THEN "open" ELSE "restore",
                                    !.log = Append(@, "test"),
                                    !.reachable = ok]
                 ELSE [Failed(probe, "test", "failed to connect to target database")
                          EXCEPT !.reachable = ok]
    /\ ImportFrame

\* dropDatabase: sql.Open of the administrative database
DropOpen ==
    /\ probe.op = "open"
    /\ \E ok \in BOOLEAN :
        probe' = IF ok THEN [probe EXCEPT !.op = "terminate"]
                 ELSE [probe EXCEPT !.op = "returned",
                                    !.err = "failed to drop existing database"]
    /\ ImportFrame

\* dropDatabase: pg_terminate_backend of the other sessions; a failure is a warning
DropTerminate ==
    /\ probe.op = "terminate"
    /\ \E ok \in BOOLEAN :
        probe' = [probe EXCEPT !.op = "drop",
                               !.sessions = IF ok THEN FALSE ELSE @,
                               !.log = Append(@, IF ok THEN "terminate"
                                                  ELSE "terminate failed")]
    /\ ImportFrame

\* a failed DROP DATABASE is followed by CREATE DATABASE all the same
DropDropIgnored ==
    /\ probe.op = "drop"
    /\ \E ok \in BOOLEAN :
        probe' = IF ok /\ ~probe.sessions
                 THEN [probe EXCEPT !.op = "create", !.log = Append(@, "drop"),
                                    !.db = [exists |-> FALSE, old |-> FALSE,
                                            applied |-> "none"]]
                 ELSE [probe EXCEPT !.op = "create", !.log = Append(@, "drop failed")]
    /\ ImportFrame

\* dropDatabase: DROP DATABASE IF EXISTS; it fails while other sessions are connected
DropDrop ==
    /\ probe.op = "drop"
    /\ \E ok \in BOOLEAN :
        probe' = IF ok /\ ~probe.sessions
                 THEN [probe EXCEPT !.op = "create", !.log = Append(@, "drop"),
                                    !.db = [exists |-> FALSE, old |-> FALSE,
                                            applied |-> "none"]]
                 ELSE Failed(probe, "drop failed", "failed to drop existing database")
    /\ ImportFrame

\* dropDatabase: CREATE DATABASE
DropCreate ==
    /\ probe.op = "create"
    /\ \E ok \in BOOLEAN :
        probe' = IF ok /\ ~probe.db.exists
                 THEN [probe EXCEPT !.op = "restore", !.log = Append(@, "create"),
                                    !.db = [exists |-> TRUE, old |-> FALSE,
                                            applied |-> "none"]]
                 ELSE Failed(probe, "create failed", "failed to drop existing database")
    /\ ImportFrame

\* what psql -f leaves and returns: the whole dump applied; a failure before any
\* statement ran; a failure after some statements were applied and committed
RestoreOutcomes == {"all", "none", "part"}

\* a failed restore puts the previous contents back
RestoredOrRolledBack(db, outcome) ==
    IF outcome = "all" THEN [db EXCEPT !.applied = "all"]
    ELSE [db EXCEPT !.old = TRUE, !.applied = "none"]

\* the database after psql has run with the given outcome
Restored(db, outcome) ==
    [db EXCEPT !.applied = IF outcome = "none" THEN @ ELSE outcome]

\* pi.importBackupFile(): psql dsn -f BackupPath
ImportBackupFile ==
    /\ probe.op = "restore"
    /\ \E outcome \in RestoreOutcomes :
        /\ (outcome # "none") => probe.db.exists
        /\ probe' = IF outcome = "all"
                    THEN [probe EXCEPT !.op = "returned", !.log = Append(@, "restore"),
                                       !.db = Restored(probe.db, outcome)]
                    ELSE [Failed(probe, "restore failed", "failed to import backup")
                             EXCEPT !.db = Restored(probe.db, outcome)]
    /\ ImportFrame

\* main -import is run again, on the database the last import left
ImportAgain ==
    /\ probe.op = "returned"
    /\ probe.imports < MaxImports
    /\ \E file \in BOOLEAN, drop \in BOOLEAN, sessions \in BOOLEAN :
        probe' = [op |-> "stat", file |-> file, dropExisting |-> drop,
                  sessions |-> sessions /\ probe.db.exists, db |-> probe.db,
                  target |-> probe.db, log |-> <<>>, err |-> "none",
                  imports |-> probe.imports + 1, reachable |-> FALSE]
    /\ ImportFrame

ImportNext ==
    \/ ImportAgain
    \/ StatBackupFile
    \/ ImportTestConnection
    \/ DropOpen
    \/ DropTerminate
    \/ DropDrop
    \/ DropCreate
    \/ ImportBackupFile

ImportSpec == ImportInit /\ [][ImportNext]_vars

\* the operations on the target an import has performed so far
Performed == probe.log

\* the administrative and restore operations, failed or not
Changing ==
    {"terminate", "terminate failed", "drop", "drop failed", "create",
     "create failed", "restore", "restore failed"}

\* position of a step in the order of ImportBackup
StepRank(step) ==
    CASE step = "stat" -> 1
      [] step = "test" -> 2
      [] step \in {"terminate", "terminate failed"} -> 3
      [] step \in {"drop", "drop failed"} -> 4
      [] step \in {"create", "create failed"} -> 5
      [] OTHER -> 6

\* C14: the import checks the file, tests the connection, then, only with
\* dropExisting, terminates sessions, drops and creates the database, then
\* restores, in this order; when the file check or the connection test fails it
\* returns an error and has performed no administrative or restore operation
C14_ImportOrder ==
        /\ \A j \in 1..Len(Performed), k \in 1..Len(Performed) :
               j < k => StepRank(Performed[j]) < StepRank(Performed[k])
        /\ \A j \in 1..Len(Performed) :
               (StepRank(Performed[j]) \in {3, 4, 5}) => probe.dropExisting
        /\ \A j \in 1..Len(Performed) :
               StepRank(Performed[j]) > 2 =>
                   (Len(Performed) >= 2 /\ Performed[1] = "stat" /\ Performed[2] = "test")
        /\ \A j \in 1..Len(Performed) :
               (Performed[j] = "restore" \/ Performed[j] = "restore failed") =>
                   IF probe.dropExisting
                   THEN SubSeq(Performed, j - 3, j - 1) \in
                            {<<t, "drop", "create">> : t \in {"terminate", "terminate failed"}}
                   ELSE j = 3
        /\ (probe.op = "returned"
            /\ probe.err \in {"backup file does not exist",
                              "failed to connect to target database"}) =>
               /\ \A j \in 1..Len(Performed) : Performed[j] \notin Changing
               /\ probe.db = probe.target
        /\ (probe.op = "returned" /\ (~probe.file \/ ~probe.target.exists)) =>
               probe.err \in {"backup file does not exist",
                              "failed to connect to target database"}

C14_Witness ==
    /\ probe.op = "returned"
    /\ probe.dropExisting
    /\ Performed = <<"stat", "test", "terminate", "drop", "create", "restore">>
    /\ probe.err = "none"

\* the import has returned the error of dropDatabase and the step was its last
EndedInDropError(j) ==
    /\ j = Len(Performed)
    /\ probe.op = "returned"
    /\ probe.err = "failed to drop existing database"

\* C15: with dropExisting a failure of terminating the sessions, of DROP DATABASE
\* or of CREATE DATABASE makes the import fail with the drop/recreate error, and no
\* later administrative operation and no restore is run
C15_AnyAdminFailureAborts ==
    \A j \in 1..Len(Performed) :
        Performed[j] \in {"terminate failed", "drop failed", "create failed"} =>
            EndedInDropError(j)

\* C15 as the code has it: a failed DROP DATABASE or CREATE DATABASE ends the import
\* with the drop/recreate error and nothing is run after it; a failure to terminate
\* the sessions is a warning and DROP DATABASE is still attempted
C15_DropOrCreateFailureAborts ==
    /\ \A j \in 1..Len(Performed) :
           Performed[j] \in {"drop failed", "create failed"} => EndedInDropError(j)
    /\ \A j \in 1..Len(Performed) :
           Performed[j] = "terminate failed" =>
               /\ probe.dropExisting
               /\ j = Len(Performed) => (probe.op = "drop" /\ probe.err = "none")
               /\ j < Len(Performed) => Performed[j + 1] \in {"drop", "drop failed"}

C15_Witness ==
    /\ probe.op = "returned"
    /\ probe.err = "failed to drop existing database"
    /\ Performed = <<"stat", "test", "terminate failed", "drop", "create failed">>
    /\ ~probe.db.exists

\* drop and recreate succeeded and the restore step then failed
RestoreFailedAfterRecreate ==
    /\ probe.op = "returned"
    /\ probe.dropExisting
    /\ Len(Performed) = 6
    /\ SubSeq(Performed, 4, 6) = <<"drop", "create", "restore failed">>

\* C16: when the drop and recreate succeed and the restore then fails, the import
\* returns an error and the target database is left existing but empty
C16_LeftEmpty ==
    RestoreFailedAfterRecreate =>
        /\ probe.err = "failed to import backup"
        /\ probe.db = [exists |-> TRUE, old |-> FALSE, applied |-> "none"]

\* C16 as the code has it: the import returns an error, nothing is run after the
\* failed restore, and the database exists without its previous contents, holding
\* nothing or the part of the dump psql applied before it failed
C16_NoRollback ==
    RestoreFailedAfterRecreate =>
        /\ probe.err = "failed to import backup"
        /\ probe.db.exists
        /\ ~probe.db.old
        /\ probe.db.applied \in {"none", "part"}
        /\ probe.target.old => probe.db # probe.target

C16_Witness ==
    /\ RestoreFailedAfterRecreate
    /\ probe.target.old
    /\ probe.db.applied = "part"

-----------------------------------------------------------------------------
(* config.LoadConfig and Config.ValidateForBackup (internal/config), over  *)
(* configurations whose settings are each left empty or filled in.         *)

Settings == {"", "x"}

DatabaseConfigs ==
    [Database : Settings, Host : Settings, Username : Settings, Password : Settings]

AWSConfigs ==
    [Bucket : Settings, Region : Settings, AccessKeyID : Settings,
     SecretAccessKey : Settings]

Configs ==
    [Databases : UNION {[1..n -> DatabaseConfigs] : n \in 0..MaxDatabases},
     Local : [Path : Settings],
     AWS : AWSConfigs]

\* Config.IsLocalStorage
IsLocalStorage(c) == c.Local.Path # ""

\* Config.IsAWSStorage
IsAWSStorage(c) ==
    /\ c.AWS.Bucket # ""
    /\ c.AWS.Region # ""
    /\ c.AWS.AccessKeyID # ""
    /\ c.AWS.SecretAccessKey # ""

\* the error of the first database that misses a setting, "" if there is none
DatabaseError(dbs) ==
    LET bad == {i \in 1..Len(dbs) :
                   \/ dbs[i].Database = ""
                   \/ dbs[i].Host = ""
                   \/ dbs[i].Username = ""
                   \/ dbs[i].Password = ""}
        first == CHOOSE i \in bad : \A j \in bad : i <= j
    IN  IF bad = {} THEN ""
        ELSE IF dbs[first].Database = "" THEN "database name is required"
        ELSE IF dbs[first].Host = "" THEN "database host is required"
        ELSE IF dbs[first].Username = "" THEN "database username is required"
        ELSE "database password is required"

\* a configuration with both storages is accepted
ValidateAllowsBoth(c) ==
    LET hasLocal == c.Local.Path # ""
        hasAWS == IsAWSStorage(c)
    IN  IF Len(c.Databases) = 0 THEN "at least one database must be configured"
        ELSE IF DatabaseError(c.Databases) # "" THEN DatabaseError(c.Databases)
        ELSE IF ~hasLocal /\ ~hasAWS
             THEN "either local storage path or AWS S3 configuration is required"
        ELSE ""

\* Config.Validate, which is Config.ValidateForBackup: the error, "" for nil
Validate(c) ==
    LET hasLocal == c.Local.Path # ""
        hasAWS == /\ c.AWS.Bucket # ""
                  /\ c.AWS.Region # ""
                  /\ c.AWS.AccessKeyID # ""
                  /\ c.AWS.SecretAccessKey # ""
    IN  IF Len(c.Databases) = 0 THEN "at least one database must be configured"
        ELSE IF DatabaseError(c.Databases) # "" THEN DatabaseError(c.Databases)
        ELSE IF ~hasLocal /\ ~hasAWS
             THEN "either local storage path or AWS S3 configuration is required"
        ELSE IF hasLocal /\ hasAWS
             THEN "both local storage and AWS S3 are configured, please choose one"
        ELSE ""

ConfigInit ==
    /\ cfg = S3Config
    /\ mode = "config"
    /\ mainPc = "config"
    /\ testIdx = 1
    /\ preflight = <<>>
    /\ nextRun = 1
    /\ run = [r \in Runs |-> IdleRun]
    /\ responses = <<>>
    /\ objects = {}
    /\ clock = 24 * 10 + 12
    /\ utcOffset = 0
    /\ \E c \in Configs :
        probe = [op |-> "load", config |-> c, err |-> "", storage |-> "none"]

\* config.LoadConfig: the decoded configuration is validated; main ends on an error
LoadConfig ==
    /\ probe.op = "load"
    /\ probe' = [probe EXCEPT !.err = Validate(probe.config),
                              !.op = IF Validate(probe.config) = "" THEN "loaded"
                                     ELSE "rejected"]
    /\ UNCHANGED <<cfg, mode, mainPc, testIdx, preflight, nextRun, run, responses,
                   objects, clock, utcOffset>>

\* main: the storage manager is created for the configured storage
SelectStorage ==
    /\ probe.op = "loaded"
    /\ probe' = [probe EXCEPT !.op = "selected",
                              !.storage = IF IsLocalStorage(probe.config) THEN "local"
                                          ELSE IF IsAWSStorage(probe.config) THEN "s3"
                                          ELSE "none"]
    /\ UNCHANGED <<cfg, mode, mainPc, testIdx, preflight, nextRun, run, responses,
                   objects, clock, utcOffset>>

ConfigNext == LoadConfig \/ SelectStorage

ConfigSpec == ConfigInit /\ [][ConfigNext]_vars

\* every database has a name, a host, a username and a password
DatabasesComplete(c) ==
    \A i \in 1..Len(c.Databases) :
        /\ c.Databases[i].Database # ""
        /\ c.Databases[i].Host # ""
        /\ c.Databases[i].Username # ""
        /\ c.Databases[i].Password # ""

\* the complete S3 settings
S3Populated(c) == \A f \in DOMAIN c.AWS : c.AWS[f] # ""

TraceConfigs ==
    RunConfigs \cup {[c EXCEPT !.Local = <<>>, !.AWS = FALSE] : c \in RunConfigs}

\* main with -once and the Lambda handler, with the trace started; a call of
\* performBackup with a manager of no known type is entered directly
TraceInit ==
    /\ cfg \in TraceConfigs
    /\ mode \in {"once", "lambda"}
    /\ mode = "lambda" => StorageManager(cfg) = "s3"
    /\ mainPc = IF mode = "lambda" THEN "lambdaIdle"
                ELSE IF StorageManager(cfg) = "none" THEN "startOnce"
                ELSE "testStorage"
    /\ testIdx = 1
    /\ preflight = <<>>
    /\ nextRun = 1
    /\ run = [r \in Runs |-> IdleRun]
    /\ responses = <<>>
    /\ objects = {}
    /\ clock = 24 * 10 + 12
    /\ utcOffset = 0
    /\ probe = [op |-> "trace", log |-> <<>>]

TraceNext ==
    \/ TestStorageConnection
    \/ TestDatabaseConnection
    \/ RunOnce
    \/ ExitOnce
    \/ LambdaInvoke
    \/ LambdaTestConnection
    \/ LambdaRespond
    \/ \E r \in Runs : CreateBackup(r)
    \/ \E r \in Runs : SaveBackup(r)
    \/ \E r \in Runs : CleanupBackup(r)
    \/ \E r \in Runs : DeleteOldBackups(r)
    \/ \E r \in Runs : Return(r)

TraceSpec == TraceInit /\ [][TraceNext]_vars

\* ---------------------------------------------------------------------------
\* Environment overrides of the decoded configuration file
\* ---------------------------------------------------------------------------

\* the prefix of the variables of database i (0-based): fmt.Sprintf("DB_%d_", i)
IndexedPrefix(i) == "DB_" \o ToString(i) \o "_"

DatabasePrefixes == {"DB_"} \cup {IndexedPrefix(i) : i \in 0..(MaxDatabases - 1)}

HostVars == {p \o "HOST" : p \in DatabasePrefixes}

PortVars == {p \o "PORT" : p \in DatabasePrefixes}

SectionVars == {"LOCAL_BACKUP_PATH"}

\* a variable is unset ({}) or set to one value, which may be the empty string
HostSettings == {{}, {<<>>}, {<<"u">>}, {<<"v">>}}

PortSettings == {{}, {<<"7">>}, {<<"x">>}}

\* the section variables are taken unset or set to a non-empty value
SectionSettings == {{}, {<<"e">>}}

\* the configuration file: n complete databases and a local path
FileConfig(n) ==
    [Databases |-> [i \in 1..n |-> [Host |-> <<"f">>, Port |-> 5432]],
     Local |-> [Path |-> <<"l">>]]

\* os.Getenv: the value of the variable, "" when it is unset
Getenv(e, v) == IF e[v] = {} THEN <<>> ELSE CHOOSE x \in e[v] : TRUE

\* an integer field accepts decimal digits only
AtoiOk(s) == Len(s) > 0 /\ \A k \in 1..Len(s) : IsDigit(s[k])

RECURSIVE Atoi(_)
Atoi(s) ==
    IF Len(s) = 0 THEN 0
    ELSE Atoi(SubSeq(s, 1, Len(s) - 1)) * 10 + DigitVal(s[Len(s)])

\* parseDatabaseEnv reads an empty variable as it reads an unset one
ParseDatabaseEnvLookup(db, prefix, e) ==
    IF Getenv(e, prefix \o "PORT") # <<>> /\ ~AtoiOk(Getenv(e, prefix \o "PORT"))
    THEN [err |-> TRUE, db |-> db]
    ELSE [err |-> FALSE,
          db |-> [Host |-> IF e[prefix \o "HOST"] # {}
                           THEN Getenv(e, prefix \o "HOST") ELSE db.Host,
                  Port |-> IF Getenv(e, prefix \o "PORT") # <<>>
                           THEN Atoi(Getenv(e, prefix \o "PORT")) ELSE db.Port]]

\* parseDatabaseEnv: a field is replaced when its prefixed variable is not empty;
\* a PORT that is no integer is an error and nothing is replaced
parseDatabaseEnv(db, prefix, e) ==
    IF Getenv(e, prefix \o "PORT") # <<>> /\ ~AtoiOk(Getenv(e, prefix \o "PORT"))
    THEN [err |-> TRUE, db |-> db]
    ELSE [err |-> FALSE,
          db |-> [Host |-> IF Getenv(e, prefix \o "HOST") # <<>>
                           THEN Getenv(e, prefix \o "HOST") ELSE db.Host,
                  Port |-> IF Getenv(e, prefix \o "PORT") # <<>>
                           THEN Atoi(Getenv(e, prefix \o "PORT")) ELSE db.Port]]

\* the body of the loop of applyEnvOverrides for the database at index i (1-based
\* here): DB_* for the first database, then DB_<i-1>_* for every database
OverrideDatabase(db, i, e) ==
    LET first == IF i = 1 THEN parseDatabaseEnv(db, "DB_", e)
                 ELSE [err |-> FALSE, db |-> db]
    IN  IF first.err THEN first
        ELSE parseDatabaseEnv(first.db, IndexedPrefix(i - 1), e)

\* parseConfigSections, for the local section
parseConfigSections(c, e) ==
    [c EXCEPT !.Local.Path = IF Getenv(e, "LOCAL_BACKUP_PATH") # <<>>
                             THEN Getenv(e, "LOCAL_BACKUP_PATH") ELSE @]

\* applyEnvOverrides: the first database that fails ends it with an error
applyEnvOverrides(c, e) ==
    LET over == [i \in 1..Len(c.Databases) |-> OverrideDatabase(c.Databases[i], i, e)]
    IN  IF \E i \in 1..Len(c.Databases) : over[i].err
        THEN [err |-> TRUE, config |-> c]
        ELSE [err |-> FALSE,
              config |-> parseConfigSections(
                  [c EXCEPT !.Databases = [i \in 1..Len(c.Databases) |-> over[i].db]],
                  e)]

EnvInit ==
    /\ cfg = S3Config
    /\ mode = "env"
    /\ mainPc = "env"
    /\ testIdx = 1
    /\ preflight = <<>>
    /\ nextRun = 1
    /\ run = [r \in Runs |-> IdleRun]
    /\ responses = <<>>
    /\ objects = {}
    /\ clock = 24 * 10 + 12
    /\ utcOffset = 0
    /\ \E n \in 1..MaxDatabases, hs \in [HostVars -> HostSettings],
          ps \in [PortVars -> PortSettings], ss \in [SectionVars -> SectionSettings] :
        probe = [op |-> "decoded", file |-> FileConfig(n), env |-> hs @@ ps @@ ss,
                 config |-> FileConfig(n), err |-> FALSE]

\* config.LoadConfig after decoding the file: the overrides are applied
ApplyEnvOverrides ==
    /\ probe.op = "decoded"
    /\ LET r == applyEnvOverrides(probe.file, probe.env)
       IN  probe' = [probe EXCEPT !.op = IF r.err THEN "failed" ELSE "loaded",
                                  !.config = r.config,
                                  !.err = r.err]
    /\ UNCHANGED <<cfg, mode, mainPc, testIdx, preflight, nextRun, run, responses,
                   objects, clock, utcOffset>>

EnvNext == ApplyEnvOverrides

EnvSpec == EnvInit /\ [][EnvNext]_vars

\* the variables of a field of the database at index i, the strongest first
VarsOfDatabase(i, field) ==
    IF i = 1 THEN <<IndexedPrefix(0) \o field, "DB_" \o field>>
    ELSE <<IndexedPrefix(i - 1) \o field>>

\* the value that field of database i takes from the environment: that of its
\* first variable that is not empty, <<>> when there is none
Effective(i, field) ==
    LET vs == VarsOfDatabase(i, field)
        set == {k \in 1..Len(vs) : Getenv(probe.env, vs[k]) # <<>>}
    IN  IF set = {} THEN <<>>
        ELSE Getenv(probe.env, vs[CHOOSE k \in set : \A j \in set : k <= j])

\* C21: after a load every field equals the value of its environment variable when
\* that variable is set and the value of the file otherwise; DB_<i>_* overrides
\* database i only
C21_EveryVariableWins ==
    probe.op = "loaded" =>
        \A i \in 1..Len(probe.config.Databases) :
            LET db == probe.config.Databases[i]
                vs == VarsOfDatabase(i, "HOST")
            IN  /\ \A k \in 1..Len(vs) :
                       probe.env[vs[k]] # {} => db.Host = Getenv(probe.env, vs[k])
                /\ probe.env[IndexedPrefix(i - 1) \o "HOST"] = {} =>
                       db.Host = probe.file.Databases[i].Host

\* C21 as the code has it: a field takes the value of its variable when that is set
\* to a non-empty value and keeps the value of the file otherwise; the first database
\* reads DB_<0>_* and, when that is empty, DB_*; DB_<i>_* changes database i only
C21_NonEmptyVariableWins ==
    probe.op = "loaded" =>
        /\ \A i \in 1..Len(probe.config.Databases) :
               LET db == probe.config.Databases[i]
                   file == probe.file.Databases[i]
               IN  /\ db.Host = IF Effective(i, "HOST") # <<>>
                                THEN Effective(i, "HOST") ELSE file.Host
                   /\ db.Port = IF Effective(i, "PORT") # <<>>
                                THEN Atoi(Effective(i, "PORT")) ELSE file.Port
        /\ Len(probe.config.Databases) = Len(probe.file.Databases)
        /\ probe.config.Local.Path =
               IF probe.env["LOCAL_BACKUP_PATH"] # {}
               THEN Getenv(probe.env, "LOCAL_BACKUP_PATH") ELSE probe.file.Local.Path

C21_Witness ==
    /\ probe.op = "loaded"
    /\ Len(probe.config.Databases) = 2
    /\ probe.env["DB_HOST"] = {<<"u">>}
    /\ probe.env["DB_0_HOST"] = {<<"v">>}
    /\ probe.env["DB_1_HOST"] = {<<>>}
    /\ probe.env["DB_1_PORT"] = {<<"7">>}
    /\ probe.config.Databases[1].Host = <<"v">>
    /\ probe.config.Databases[2] = [Host |-> <<"f">>, Port |-> 7]

\* ---------------------------------------------------------------------------
\* Validation of the import configuration
\* ---------------------------------------------------------------------------

ImportSettings ==
    [BackupPath : Settings,
     TargetDatabase : [Host : Settings, Database : Settings, Username : Settings,
                       Password : Settings]]

\* a complete database and one without a host
ListedDatabases ==
    {[Database |-> "x", Host |-> h, Username |-> "x", Password |-> "x"] : h \in Settings}

\* the decoded files: any list of databases, one storage, both or none
ImportConfigs ==
    [Databases : UNION {[1..n -> ListedDatabases] : n \in 0..MaxDatabases},
     Local : [Path : Settings],
     AWS : {[Bucket |-> s, Region |-> s, AccessKeyID |-> s, SecretAccessKey |-> s] :
               s \in Settings},
     Import : ImportSettings]

\* Config.IsImportConfigured
IsImportConfigured(c) ==
    /\ c.Import.BackupPath # ""
    /\ c.Import.TargetDatabase.Host # ""
    /\ c.Import.TargetDatabase.Database # ""
    /\ c.Import.TargetDatabase.Username # ""
    /\ c.Import.TargetDatabase.Password # ""

\* Config.ValidateImportConfig: the error, "" for nil
ValidateImportConfig(c) ==
    IF ~IsImportConfigured(c)
    THEN "import configuration is incomplete - requires target_database and backup_path"
    ELSE IF c.Import.TargetDatabase.Host = ""
         THEN "import target database host is required"
    ELSE IF c.Import.TargetDatabase.Database = ""
         THEN "import target database name is required"
    ELSE IF c.Import.TargetDatabase.Username = ""
         THEN "import target database username is required"
    ELSE IF c.Import.TargetDatabase.Password = ""
         THEN "import target database password is required"
    ELSE IF c.Import.BackupPath = "" THEN "import backup path is required"
    ELSE ""

\* the import is validated as a backup is, and then as an import
ValidateForImportAfterBackup(c) ==
    IF Validate(c) # "" THEN Validate(c) ELSE ValidateImportConfig(c)

\* Config.ValidateForImport
ValidateForImport(c) == ValidateImportConfig(c)

ImportConfigInit ==
    /\ cfg = S3Config
    /\ mode = "import config"
    /\ mainPc = "import config"
    /\ testIdx = 1
    /\ preflight = <<>>
    /\ nextRun = 1
    /\ run = [r \in Runs |-> IdleRun]
    /\ responses = <<>>
    /\ objects = {}
    /\ clock = 24 * 10 + 12
    /\ utcOffset = 0
    /\ \E c \in ImportConfigs, exists \in BOOLEAN :
        probe = [op |-> "load", config |-> c, err |-> "", storage |-> "none",
                 fileExists |-> exists]

\* config.LoadConfigForImport: the decoded configuration is validated for an import
LoadConfigForImport ==
    /\ probe.op = "load"
    /\ probe' = [probe EXCEPT !.err = ValidateForImport(probe.config),
                              !.op = IF ValidateForImport(probe.config) = ""
                                     THEN "import loaded" ELSE "import rejected"]
    /\ UNCHANGED <<cfg, mode, mainPc, testIdx, preflight, nextRun, run, responses,
                   objects, clock, utcOffset>>

ImportConfigNext == LoadConfigForImport \/ LoadConfig \/ SelectStorage

ImportConfigSpec == ImportConfigInit /\ [][ImportConfigNext]_vars

\* the backup path and the target's host, name, username and password are given
ImportComplete(c) ==
    /\ c.Import.BackupPath # ""
    /\ \A f \in {"Host", "Database", "Username", "Password"} :
           c.Import.TargetDatabase[f] # ""

\* C22: the import validation fails exactly when the backup path or the target's
\* host, database name, username or password is empty, whatever the databases list
\* and whether or not the backup file exists; LoadConfig of a file without databases
\* fails with "at least one database must be configured"
C22_ImportValidation ==
    /\ probe.op \in {"import loaded", "import rejected"} =>
           /\ (probe.op = "import rejected") <=> ~ImportComplete(probe.config)
           /\ (probe.err # "") <=> ~ImportComplete(probe.config)
    /\ (probe.op \in {"loaded", "rejected", "selected"}
            /\ Len(probe.config.Databases) = 0) =>
           probe.err = "at least one database must be configured"

C22_Witness ==
    /\ probe.op = "import loaded"
    /\ Len(probe.config.Databases) = 0
    /\ ~probe.fileExists
    /\ Validate(probe.config) = "at least one database must be configured"

\* ---------------------------------------------------------------------------
\* Counters, cleanup and sweep of a traced run
\* ---------------------------------------------------------------------------

\* the call whose trace is kept, from its start until the caller has its result
Tracing == nextRun > 1 /\ mainPc \in {"runOnce", "lambdaRun", "exit", "fatal"}

TracedRun == run[nextRun - 1]

Log == probe.log

\* positions of the trace with that event and outcome
At(ev, ok) == {k \in 1..Len(Log) : Log[k].ev = ev /\ Log[k].ok = ok}

\* the event of the trace after position k starts the next database or the sweep
NextStepFollows(k) ==
    k < Len(Log) =>
        IF Log[k].db < NumDatabases
        THEN Log[k + 1].ev = "create" /\ Log[k + 1].db = Log[k].db + 1
        ELSE Log[k + 1].ev = "sweep"

\* C23: a failed sweep does not change the outcome of the run: the counters are
\* those the loop left and the result is an error exactly when failedBackups > 0
C23_SweepNeverChangesOutcome ==
    (Tracing /\ At("sweep", FALSE) # {}) =>
        /\ TracedRun.successfulBackups = Cardinality(At("save", TRUE))
        /\ TracedRun.failedBackups =
               Cardinality(At("create", FALSE)) + Cardinality(At("save", FALSE))
        /\ TracedRun.pc \in {"return", "done"}
        /\ TracedRun.pc = "done" =>
               (TracedRun.result = "error" <=> TracedRun.failedBackups > 0)

C23_Witness ==
    /\ Tracing
    /\ At("sweep", FALSE) # {}
    /\ TracedRun.pc = "done"
    /\ TracedRun.result = "nil"
    /\ TracedRun.successfulBackups = 2

\* C24: after a failed transfer of database i CleanupBackup is attempted on that
\* artifact before anything else, failedBackups grows by exactly one,
\* successfulBackups stays, and the loop goes on with database i+1
C24_FailedTransferCleanedAndCounted ==
    Tracing =>
        /\ \A k \in At("save", FALSE) :
               /\ k < Len(Log) =>
                      /\ Log[k + 1].ev = "cleanup"
                      /\ Log[k + 1].db = Log[k].db
                      /\ NextStepFollows(k + 1)
               /\ k = Len(Log) =>
                      /\ TracedRun.pc = "cleanup"
                      /\ TracedRun.i = Log[k].db
                      /\ TracedRun.backupPath # <<>>
        /\ TracedRun.failedBackups =
               Cardinality(At("create", FALSE))
                   + Cardinality(At("unknown manager", FALSE))
                   + Cardinality({k \in At("save", FALSE) : k < Len(Log)})
        /\ TracedRun.successfulBackups =
               Cardinality({k \in At("save", TRUE) : k < Len(Log)})

C24_Witness ==
    /\ Tracing
    /\ Len(Log) >= 4
    /\ \E k \in At("save", FALSE) :
           /\ Log[k].db = 1
           /\ k + 2 <= Len(Log)
           /\ Log[k + 2] = Event("create", 2, TRUE)
    /\ TracedRun.failedBackups = 1
    /\ TracedRun.successfulBackups = 0

\* C26: a failed cleanup after a successful transfer is a warning only:
\* successfulBackups is still incremented, failedBackups is not, the loop goes on
\* with the next database and the sweep still runs
C26_CleanupFailureWarnOnly ==
    Tracing =>
        \A k \in At("cleanup", FALSE) :
            Log[k - 1] = Event("save", Log[k].db, TRUE) =>
                /\ NextStepFollows(k)
                /\ TracedRun.successfulBackups =
                       Cardinality({j \in At("save", TRUE) : j < Len(Log)})
                /\ TracedRun.failedBackups =
                       Cardinality(At("create", FALSE))
                           + Cardinality({j \in At("save", FALSE) : j < Len(Log)})
                /\ TracedRun.pc \in {"return", "done"} =>
                       Cardinality(At("sweep", TRUE) \cup At("sweep", FALSE)) = 1
                /\ TracedRun.pc = "done" /\ At("create", FALSE) \cup At("save", FALSE) = {}
                       => TracedRun.result = "nil"

C26_Witness ==
    /\ Tracing
    /\ TracedRun.pc = "done"
    /\ TracedRun.result = "nil"
    /\ TracedRun.successfulBackups = 2
    /\ \A k \in 1..Len(Log) : Log[k].ev = "cleanup" => ~Log[k].ok
    /\ At("sweep", TRUE) # {}

\* the traced run has left the step of database d
StepOver(d) == TracedRun.i > d

SweepEntries ==
    {<< <<"p">>, <<"a">>, FormatDate(7), <<"f">> >>,
     << <<"p">>, <<"a">>, FormatDate(10), <<"f">> >>,
     << <<"p", "q">>, <<"a">>, FormatDate(7), <<"f">> >>,
     << <<"q">>, <<"a">>, FormatDate(7), <<"f">> >>,
     << <<"p">>, FormatDate(7) >>,
     << <<"p">>, <<"b">>, FormatDate(7) >>}

\* the key or path of an entry in the configured storage
Placed(c, elems) ==
    IF StorageManager(c) = "s3" THEN JoinWith(elems, "/")
    ELSE FilepathJoin(<<c.Local>> \o elems)

SweepConfigs ==
    {c \in [Databases : {<<KnownDatabases[1]>>},
            Local : {<<>>, LocalRoot},
            AWS : BOOLEAN,
            BackupPrefix : {<<"p">>, <<"p", "q">>},
            RetentionDays : 1..MaxRetention] : ValidateForBackup(c)}

\* what the manager finds under the prefix: the listing with Prefix backupPrefix/,
\* the files below filepath.Join(root, backupPrefix)
ListedUnder(c, stored) ==
    IF StorageManager(c) = "s3"
    THEN {k \in stored : HasPrefix(k, c.BackupPrefix \o <<"/">>)}
    ELSE {f \in stored : Below(f, FilepathJoin(<<c.Local, c.BackupPrefix>>)) # <<>>}

RetentionInit ==
    /\ cfg \in SweepConfigs
    /\ mode = "sweep"
    /\ mainPc = "sweep"
    /\ testIdx = 1
    /\ preflight = <<>>
    /\ nextRun = 1
    /\ run = [r \in Runs |-> IdleRun]
    /\ responses = <<>>
    /\ clock \in {24 * 10 + h : h \in Hours}
    /\ utcOffset \in UtcOffsets
    /\ \E entries \in SUBSET SweepEntries :
        objects = {Placed(cfg, e) : e \in entries}
    /\ probe = [op |-> "stored", before |-> {}, err |-> FALSE, listed |-> FALSE,
                deleteCalls |-> 0]

\* (mutant) a prefix nothing is stored under is an error
DeleteOldBackupsCallMissingFails ==
    /\ probe.op = "stored"
    /\ LET expired == Expired(cfg, objects, clock, utcOffset)
           Returned(err, listed, calls) ==
               probe' = [op |-> "swept", before |-> objects, err |-> err,
                         listed |-> listed, deleteCalls |-> calls]
       IN  IF ListedUnder(cfg, objects) = {}
           THEN UNCHANGED objects /\ Returned(TRUE, TRUE, 0)
           ELSE \E gone \in SUBSET expired :
                   /\ objects' = objects \ gone
                   /\ Returned(gone # expired /\ StorageManager(cfg) = "s3", TRUE,
                               IF StorageManager(cfg) = "s3" /\ expired # {}
                               THEN 1 ELSE 0)
    /\ UNCHANGED <<cfg, mode, mainPc, testIdx, preflight, nextRun, run, responses,
                   clock, utcOffset>>

\* DeleteOldBackups(BackupPrefix, RetentionDays) of the configured manager.
\* local: nil when the directory of the prefix does not exist; an error when it
\* cannot be read; a directory RemoveAll fails on is logged and left.
\* S3: an error when the listing fails; nil without a DeleteObjects call when
\* nothing is to delete; an error when DeleteObjects fails
DeleteOldBackupsCall ==
    /\ probe.op = "stored"
    /\ LET expired == Expired(cfg, objects, clock, utcOffset)
           Returned(err, listed, calls) ==
               probe' = [op |-> "swept", before |-> objects, err |-> err,
                         listed |-> listed, deleteCalls |-> calls]
       IN  IF StorageManager(cfg) = "local"
           THEN IF ListedUnder(cfg, objects) = {}
                THEN UNCHANGED objects /\ Returned(FALSE, TRUE, 0)
                ELSE \E readOk \in BOOLEAN, gone \in SUBSET expired :
                        IF readOk
                        THEN objects' = objects \ gone /\ Returned(FALSE, TRUE, 0)
                        ELSE UNCHANGED objects /\ Returned(TRUE, FALSE, 0)
           ELSE \E listOk \in BOOLEAN, gone \in SUBSET expired :
                   IF ~listOk
                   THEN UNCHANGED objects /\ Returned(TRUE, FALSE, 0)
                   ELSE IF expired = {}
                   THEN UNCHANGED objects /\ Returned(FALSE, TRUE, 0)
                   ELSE objects' = objects \ gone /\ Returned(gone # expired, TRUE, 1)
    /\ UNCHANGED <<cfg, mode, mainPc, testIdx, preflight, nextRun, run, responses,
                   clock, utcOffset>>

RetentionNext == DeleteOldBackupsCall

RetentionSpec == RetentionInit /\ [][RetentionNext]_vars

\* C27: DeleteOldBackups does nothing when nothing exists under the prefix: the
\* local manager returns nil and deletes and creates nothing when root/prefix does
\* not exist, the S3 manager returns nil without a delete call when the listing is
\* empty
C27_NothingUnderPrefixIsNoOp ==
    (probe.op = "swept" /\ probe.listed /\ ListedUnder(cfg, probe.before) = {}) =>
        /\ ~probe.err
        /\ objects = probe.before
        /\ probe.deleteCalls = 0

C27_Witness ==
    /\ probe.op = "swept"
    /\ probe.listed
    /\ ListedUnder(cfg, probe.before) = {}
    /\ Cardinality(probe.before) >= 2
    /\ ~probe.err

\* the elements of an entry below the configured prefix, <<>> if it is not below it
UnderPrefix(c, e) ==
    IF StorageManager(c) = "s3"
    THEN IF HasPrefix(e, c.BackupPrefix \o <<"/">>)
         THEN Split(SubSeq(e, Len(c.BackupPrefix) + 2, Len(e)), "/")
         ELSE <<>>
    ELSE Below(e, FilepathJoin(<<c.Local, c.BackupPrefix>>))

\* the date segment of an entry below the prefix is a date before the cutoff
DateSegmentExpired(c, rel) ==
    /\ Len(rel) >= 2
    /\ ParseDateOk(rel[2])
    /\ Before(DateInstant(ParseDate(rel[2])),
              CutoffInstant(clock, utcOffset, c.RetentionDays))

\* C28: a sweep changes only artifacts under its prefix whose date segment is
\* before the cutoff: entries under another prefix, also one that starts with the
\* same characters, entries of a later date, and files next to the database or
\* date folders of the local layout stay
C28_SweepFrame ==
    probe.op = "swept" =>
        /\ objects \subseteq probe.before
        /\ \A e \in probe.before \ objects :
               /\ UnderPrefix(cfg, e) # <<>>
               /\ DateSegmentExpired(cfg, UnderPrefix(cfg, e))
        /\ \A e \in probe.before :
               UnderPrefix(cfg, e) = <<>> => e \in objects
        /\ \A elems \in SweepEntries :
               (Placed(cfg, elems) \in probe.before
                    /\ (\E k \in 1..Len(elems) : elems[k] = FormatDate(10)))
                   => Placed(cfg, elems) \in objects
        /\ StorageManager(cfg) = "local" =>
               \A e \in probe.before :
                   Len(UnderPrefix(cfg, e)) \in {1, 2} => e \in objects

\* the destination SaveBackup computes for database d of the traced run
SaveDestination(d) ==
    Destination(cfg, CreateBackupPath(cfg.Databases[d], clock), clock)

\* C29: when LocalStorage.SaveBackup returns an error no file, complete or partial,
\* exists at the destination: a database counted as failed has no artifact in the
\* storage
C29_FailedSaveLeavesNothing ==
    (Tracing /\ StorageManager(cfg) = "local") =>
        \A k \in At("save", FALSE) : SaveDestination(Log[k].db) \notin objects

\* C30: with dropExisting an import creates its target from scratch: when the
\* backup file exists and the server answers but has no target database yet, the
\* import does not fail at the connection test but goes on to drop and recreate
C30_TargetCreatedFromScratch ==
    (/\ probe.op = "returned"
     /\ probe.file
     /\ probe.dropExisting
     /\ probe.reachable
     /\ ~probe.target.exists) =>
        /\ probe.err # "failed to connect to target database"
        /\ Len(probe.log) >= 3

====
